---------------------------- MODULE Spec2Model ----------------------------
(***************************************************************************)
(* A model of the rsass core: the nested variable/mixin scope              *)
(* (src/src/variablescope.rs) and the evaluation of sass values            *)
(* (src/src/sass/value.rs) to css values (src/src/css/value.rs).           *)
(*                                                                         *)
(* Values are tagged records.  A Rational is a pair <<numer, denom>> in    *)
(* reduced form with a positive denominator.  A String is a sequence of    *)
(* one-character strings.  An Option is None or Some(x).                   *)
(***************************************************************************)
EXTENDS Integers, Sequences, FiniteSets, TLC

VARIABLES
    scopes,   \* the chain of ScopeImpl, root first; scopes[k].parent is scopes[k-1]
    last      \* the last operation carried out, its arguments and what it returned

vars == <<scopes, last>>

----------------------------------------------------------------------------
(* Bounds of the model.                                                    *)

MaxDepth == 3       \* longest chain of nested scopes
MaxBindings == 2    \* most variable and mixin bindings in a chain, all scopes together
MaxChain == 2       \* most slashes in one division chain a/b/c

----------------------------------------------------------------------------
(* Option.                                                                 *)

None == [some |-> FALSE]
Some(x) == [some |-> TRUE, val |-> x]

(* num_rational::Rational.                                                 *)

Abs(n) == IF n < 0 THEN -n ELSE n

RECURSIVE Gcd(_, _)
Gcd(a, b) == IF b = 0 THEN a ELSE Gcd(b, a % b)

\* Ratio::new: reduces and keeps the denominator positive (d # 0).
RatNew(n, d) ==
    LET g == Gcd(Abs(n), Abs(d))
        s == IF d < 0 THEN -1 ELSE 1
    IN  <<(s * n) \div g, (s * d) \div g>>

from_integer(n) == <<n, 1>>
is_zero(r) == r[1] = 0
is_negative(r) == r[1] < 0
is_integer(r) == r[2] = 1
RatGt(x, y) == x[1] * y[2] > y[1] * x[2]
RatMul(x, y) == RatNew(x[1] * y[1], x[2] * y[2])
\* Ratio's Div; the caller keeps y away from zero (Ratio::new panics on it).
RatDiv(x, y) == RatNew(x[1] * y[2], x[2] * y[1])

----------------------------------------------------------------------------
(* The variants of Value.                                                  *)

Null == [tag |-> "Null"]
True == [tag |-> "True"]
False == [tag |-> "False"]
Literal(s, q) == [tag |-> "Literal", s |-> s, q |-> q]
Numeric(v, u, sign, calc) ==
    [tag |-> "Numeric", v |-> v, u |-> u, sign |-> sign, calc |-> calc]
Color(r, g, b, a, n) ==
    [tag |-> "Color", r |-> r, g |-> g, b |-> b, a |-> a, n |-> n]
List(items, sep, bracketed) ==
    [tag |-> "List", items |-> items, sep |-> sep, bracketed |-> bracketed]
Div(a, b, s1, s2) == [tag |-> "Div", a |-> a, b |-> b, s1 |-> s1, s2 |-> s2]
Product(a, b) == [tag |-> "Product", a |-> a, b |-> b]
Paren(a) == [tag |-> "Paren", a |-> a]
Variable(name) == [tag |-> "Variable", name |-> name]

\* The outcome of an evaluation that hit panic!(): the program aborts.
Panic == [tag |-> "Panic"]

MixinDeclaration(name, body) == [name |-> name, body |-> body]


----------------------------------------------------------------------------
(* Value algebra.                                                          *)

\* Value::rgba with its inner fn cap: clamps r, g, b to [0,255] and a to
\* [0,1], and clears the source name.
\* A cap that bounds its argument from above only.
cap_upper(n, ff) == IF RatGt(n, ff) THEN ff ELSE n

cap(n, ff) ==
    IF RatGt(n, ff) THEN ff
    ELSE IF is_negative(n) THEN from_integer(0)
    ELSE n

rgba(r, g, b, a) ==
    LET ff == RatNew(255, 1)
        one == from_integer(1)
    IN  Color(cap(r, ff), cap(g, ff), cap(b, ff), cap(a, one), None)

is_calculated(v) ==
    CASE v.tag = "Numeric" -> v.calc
      [] v.tag = "Color" -> v.n = None
      [] OTHER -> FALSE

RECURSIVE into_calculated(_)
into_calculated(v) ==
    CASE v.tag = "Numeric" -> Numeric(v.v, v.u, v.sign, TRUE)
      [] v.tag = "List" ->
            List([i \in DOMAIN v.items |-> into_calculated(v.items[i])],
                 v.sep, v.bracketed)
      [] OTHER -> v

----------------------------------------------------------------------------
(* Text.  Display for Unit lives outside the modelled files: a unit prints *)
(* as its token and Unit::None prints as nothing.                          *)

unit_fmt(u) ==
    CASE u = "None" -> <<>>
      [] u = "px" -> <<"p", "x">>
      [] u = "em" -> <<"e", "m">>

Digit(d) == <<"0", "1", "2", "3", "4", "5", "6", "7", "8", "9">>[d + 1]

RECURSIVE NatToStr(_)
NatToStr(n) == IF n < 10 THEN <<Digit(n)>> ELSE NatToStr(n \div 10) \o <<Digit(n % 10)>>

IntToStr(n) == IF n < 0 THEN <<"-">> \o NatToStr(-n) ELSE NatToStr(n)

\* Ratio::round: to the nearest integer, halves away from zero.
RatRound(r) ==
    IF r[1] >= 0 THEN (2 * r[1] + r[2]) \div (2 * r[2])
    ELSE -((2 * (-r[1]) + r[2]) \div (2 * r[2]))

\* The digits of f (0 <= f < 10^w) on w places, trailing zeros dropped.
RECURSIVE FracDigits(_, _)
FracDigits(f, w) ==
    IF f = 0 \/ w = 0 THEN <<>>
    ELSE LET p == 10 ^ (w - 1)
         IN  <<Digit(f \div p)>> \o FracDigits(f % p, w - 1)

\* rational2str of value/mod.rs: an integer prints its numerator; any other
\* value is rounded to 5 decimals and printed as the f64 it converts to
\* (the shortest decimal: trailing zeros dropped, no point for a whole
\* number); skipzero drops a leading "0" in front of the point.
rational2str(r, skipzero) ==
    IF is_integer(r) THEN IntToStr(r[1])
    ELSE LET n == RatRound(RatMul(r, from_integer(100000)))
             whole == Abs(n) \div 100000
             frac == Abs(n) % 100000
             sign == IF n < 0 THEN <<"-">> ELSE <<>>
             result == sign \o NatToStr(whole)
                       \o (IF frac = 0 THEN <<>> ELSE <<".">> \o FracDigits(frac, 5))
         IN  IF skipzero /\ Len(result) >= 2 /\ result[1] = "0" /\ result[2] = "."
             THEN Tail(result)
             ELSE result

RECURSIVE JoinStr(_, _)
JoinStr(parts, sep) ==
    IF parts = <<>> THEN <<>>
    ELSE IF Len(parts) = 1 THEN parts[1]
    ELSE parts[1] \o sep \o JoinStr(Tail(parts), sep)

RECURSIVE EscapeStr(_, _)
EscapeStr(s, quote) ==
    IF s = <<>> THEN <<>>
    ELSE (IF s[1] \in {"#", "\\", quote} THEN <<"\\", s[1]>> ELSE <<s[1]>>)
         \o EscapeStr(Tail(s), quote)

RECURSIVE value_is_null(_)
value_is_null(v) ==
    CASE v.tag = "Null" -> TRUE
      [] v.tag = "List" -> \A i \in DOMAIN v.items : value_is_null(v.items[i])
      [] OTHER -> FALSE

\* Display for the Value of value/mod.rs, the text ScopeImpl::do_evaluate
\* builds its literals from.  alt is the formatter's alternate flag.
RECURSIVE value_fmt(_, _)
value_fmt(v, alt) ==
    CASE v.tag = "Literal" ->
            (CASE v.q = "Double" -> <<"\"">> \o EscapeStr(v.s, "\"") \o <<"\"">>
               [] v.q = "Single" -> <<"'">> \o EscapeStr(v.s, "'") \o <<"'">>
               [] v.q = "None" -> v.s)
      [] v.tag = "Numeric" -> rational2str(v.v, alt) \o unit_fmt(v.u)
      [] v.tag = "Color" /\ v.n # None -> v.n.val
      [] v.tag = "List" ->
            LET kept == SelectSeq(v.items, LAMBDA x : ~value_is_null(x))
                texts == [i \in DOMAIN kept |-> value_fmt(kept[i], alt)]
            IN  JoinStr(texts,
                        IF v.sep = "Comma"
                        THEN (IF alt THEN <<",">> ELSE <<",", " ">>)
                        ELSE <<" ">>)
      [] v.tag = "Div" ->
            value_fmt(v.a, alt) \o (IF v.s1 THEN <<" ">> ELSE <<>>) \o <<"/">>
            \o (IF v.s2 THEN <<" ">> ELSE <<>>) \o value_fmt(v.b, alt)
      [] v.tag = "Paren" -> <<"(">> \o value_fmt(v.a, alt) \o <<")">>
      [] v.tag = "True" -> <<"t", "r", "u", "e">>
      [] v.tag = "False" -> <<"f", "a", "l", "s", "e">>
      [] v.tag = "Variable" -> <<"$", v.name>>
      [] v.tag = "Null" -> <<>>

----------------------------------------------------------------------------
(* The scope chain of variablescope.rs.  sc is the chain and k the place   *)
(* of the scope the method is called on; its parent is sc[k - 1], and the  *)
(* root, at place 1, has none.                                             *)

\* ScopeImpl::new and ScopeImpl::sub: both start with empty maps.
ScopeImpl == [variables |-> <<>>, mixins |-> <<>>]

\* BTreeMap::insert: the new entry replaces an earlier one with that key.
Insert(map, key, val) == (key :> val) @@ map

\* A get that reads its own map only and never asks the parent.
get_own(sc, k, name) ==
    IF name \in DOMAIN sc[k].variables THEN sc[k].variables[name] ELSE Null

RECURSIVE get(_, _, _)
get(sc, k, name) ==
    IF name \in DOMAIN sc[k].variables THEN sc[k].variables[name]
    ELSE IF k > 1 THEN get(sc, k - 1, name)
    ELSE Null

RECURSIVE get_mixin(_, _, _)
get_mixin(sc, k, name) ==
    IF name \in DOMAIN sc[k].mixins THEN Some(sc[k].mixins[name])
    ELSE IF k > 1 THEN get_mixin(sc, k - 1, name)
    ELSE None

\* A define_mixin that keeps the declaration the scope already holds.
define_mixin_keep(sc, k, m) ==
    IF m.name \in DOMAIN sc[k].mixins THEN sc
    ELSE [sc EXCEPT ![k].mixins = Insert(@, m.name, m)]

define_mixin(sc, k, m) ==
    [sc EXCEPT ![k].mixins = Insert(@, m.name, m)]

\* The Div arm of ScopeImpl::do_evaluate once both operands are evaluated.
ScopeImpl_div(a, b, space1, space2, arithmetic) ==
    LET text == Literal(value_fmt(a, FALSE)
                        \o (IF space1 /\ ~arithmetic THEN <<" ">> ELSE <<>>)
                        \o <<"/">>
                        \o (IF space2 /\ ~arithmetic THEN <<" ">> ELSE <<>>)
                        \o value_fmt(b, FALSE),
                        "None")
    IN  IF arithmetic \/ is_calculated(a) \/ is_calculated(b)
        THEN CASE a.tag = "Color" /\ b.tag = "Numeric" /\ b.u = "None" ->
                    IF is_zero(b.v) THEN Panic
                    ELSE rgba(RatDiv(a.r, b.v), RatDiv(a.g, b.v), RatDiv(a.b, b.v), a.a)
               [] a.tag = "Numeric" /\ b.tag = "Numeric" ->
                    IF is_zero(b.v) THEN Div(a, b, space1, space2)
                    ELSE IF b.u = "None" THEN Numeric(RatDiv(a.v, b.v), a.u, FALSE, TRUE)
                    ELSE IF a.u = b.u THEN Numeric(RatDiv(a.v, b.v), "None", FALSE, TRUE)
                    ELSE text
               [] OTHER -> text
        ELSE text

\* Display for the Rational itself: the numerator, and `/` and the
\* denominator unless that is 1.  The Product arm prints the two ratios of
\* its operands this way, without their units.
Ratio_fmt(r) ==
    IF r[2] = 1 THEN IntToStr(r[1])
    ELSE IntToStr(r[1]) \o <<"/">> \o IntToStr(r[2])

\* ScopeImpl::do_evaluate.  Its Numeric has no sign flag: the flag stays off.
RECURSIVE ScopeImpl_do_evaluate(_, _, _, _)
ScopeImpl_do_evaluate(sc, k, val, arithmetic) ==
    CASE val.tag = "Literal" -> Literal(val.s, val.q)
      [] val.tag = "Paren" -> ScopeImpl_do_evaluate(sc, k, val.a, TRUE)
      [] val.tag = "Color" -> val
      [] val.tag = "Variable" ->
            ScopeImpl_do_evaluate(sc, k, get(sc, k, val.name), TRUE)
      [] val.tag = "List" ->
            LET items == [i \in DOMAIN val.items |->
                            ScopeImpl_do_evaluate(sc, k, val.items[i], FALSE)]
            IN  IF \E i \in DOMAIN items : items[i] = Panic THEN Panic
                ELSE List(items, val.sep, val.bracketed)
      [] val.tag = "Product" ->
            LET a == ScopeImpl_do_evaluate(sc, k, val.a, TRUE)
                b == ScopeImpl_do_evaluate(sc, k, val.b, TRUE)
            IN  IF a = Panic \/ b = Panic THEN Panic
                ELSE IF a.tag = "Numeric" /\ b.tag = "Numeric"
                THEN IF b.u = "None" THEN Numeric(RatMul(a.v, b.v), a.u, FALSE, TRUE)
                     ELSE IF a.u = "None" THEN Numeric(RatMul(a.v, b.v), b.u, FALSE, TRUE)
                     ELSE Literal(Ratio_fmt(a.v) \o <<"*">> \o Ratio_fmt(b.v),
                                  "None")
                ELSE Literal(value_fmt(a, FALSE) \o <<"*">> \o value_fmt(b, FALSE),
                             "None")
      [] val.tag = "Div" ->
            LET aa == ScopeImpl_do_evaluate(sc, k, val.a, arithmetic)
                b == ScopeImpl_do_evaluate(sc, k, val.b,
                                           arithmetic \/ is_calculated(val.a))
                a == IF ~arithmetic /\ is_calculated(b) /\ ~is_calculated(val.a)
                     THEN ScopeImpl_do_evaluate(sc, k, val.a, TRUE)
                     ELSE aa
            IN  IF aa = Panic \/ b = Panic \/ a = Panic THEN Panic
                ELSE ScopeImpl_div(a, b, val.s1, val.s2, arithmetic)
      [] val.tag = "Numeric" ->
            Numeric(val.v, val.u, val.sign, arithmetic \/ val.calc)
      [] val.tag = "Null" -> Null
      [] val.tag = "True" -> True
      [] val.tag = "False" -> False

\* ScopeImpl::evaluate.
ScopeImpl_evaluate(sc, k, val) == ScopeImpl_do_evaluate(sc, k, val, FALSE)

\* A define that forgets the global flag and always writes its own map.
define_here(sc, k, name, val, global) ==
    [sc EXCEPT ![k].variables =
            Insert(@, name, ScopeImpl_do_evaluate(sc, k, val, TRUE))]

\* A define that, without the global flag, assigns to the nearest scope that
\* already binds the name instead of shadowing it.
define_assign(sc, k, name, val, global) ==
    LET binders == {j \in 1..k : name \in DOMAIN sc[j].variables}
        target == IF global THEN 1
                  ELSE IF binders = {} THEN k
                  ELSE CHOOSE j \in binders : \A i \in binders : i <= j
    IN  [sc EXCEPT ![target].variables =
                Insert(@, name, ScopeImpl_do_evaluate(sc, target, val, TRUE))]

\* A define that stores the expression as written and leaves its evaluation
\* to the reader.
define_lazy(sc, k, name, val, global) ==
    [sc EXCEPT ![IF global THEN 1 ELSE k].variables = Insert(@, name, val)]

\* A define that, with the global flag, also overwrites the binding of the
\* name in every scope from the caller up that holds one.
define_everywhere(sc, k, name, val, global) ==
    IF global
    THEN [j \in 1..Len(sc) |->
            IF j = 1 \/ (j <= k /\ name \in DOMAIN sc[j].variables)
            THEN [sc[j] EXCEPT !.variables =
                        Insert(@, name, ScopeImpl_do_evaluate(sc, 1, val, TRUE))]
            ELSE sc[j]]
    ELSE [sc EXCEPT ![k].variables =
                Insert(@, name, ScopeImpl_do_evaluate(sc, k, val, TRUE))]

\* TRUE iff define does not return: the evaluation of val, in the scope
\* that is to hold the binding, panics before anything is inserted.
define_panics(sc, k, name, val, global) ==
    ScopeImpl_do_evaluate(sc, IF global THEN 1 ELSE k, val, TRUE) = Panic

\* define.  A panic of the evaluation leaves the call before the insert: the
\* chain is as it was.
RECURSIVE define(_, _, _, _, _)
define(sc, k, name, val, global) ==
    IF global /\ k > 1 THEN define(sc, k - 1, name, val, global)
    ELSE LET v == ScopeImpl_do_evaluate(sc, k, val, TRUE)
         IN  IF v = Panic THEN sc
             ELSE [sc EXCEPT ![k].variables = Insert(@, name, v)]

\* A define_default that looks for an earlier value in its own map only.
define_default_own(sc, k, name, val, global) ==
    IF name \notin DOMAIN sc[k].variables \/ sc[k].variables[name] = Null
    THEN define(sc, k, name, val, global)
    ELSE sc

define_default(sc, k, name, val, global) ==
    IF get(sc, k, name) = Null THEN define(sc, k, name, val, global)
    ELSE sc

----------------------------------------------------------------------------
(* Evaluation of a sass value to a css value (sass/value.rs).  scope is    *)
(* the chain sc read at place k.                                           *)

\* A Div arm that divides two numbers whatever the context.
do_evaluate_div_always(a, b, space1, space2, arithmetic) ==
    IF a.tag = "Numeric" /\ b.tag = "Numeric" /\ ~is_zero(b.v)
          /\ (b.u = "None" \/ a.u = b.u)
    THEN Numeric(RatDiv(a.v, b.v), IF b.u = "None" THEN a.u ELSE "None", FALSE, TRUE)
    ELSE Div(a, b, space1, space2)

\* A Div arm whose zero-divisor result drops the spacing, as its other
\* symbolic results do.
do_evaluate_div_nospace(a, b, space1, space2, arithmetic) ==
    IF arithmetic \/ is_calculated(a) \/ is_calculated(b)
    THEN CASE a.tag = "Color" /\ b.tag = "Numeric" /\ b.u = "None" ->
                IF is_zero(b.v) THEN Panic
                ELSE rgba(RatDiv(a.r, b.v), RatDiv(a.g, b.v), RatDiv(a.b, b.v), a.a)
           [] a.tag = "Numeric" /\ b.tag = "Numeric" ->
                IF is_zero(b.v) THEN Div(a, b, FALSE, FALSE)
                ELSE IF b.u = "None" THEN Numeric(RatDiv(a.v, b.v), a.u, FALSE, TRUE)
                ELSE IF a.u = b.u THEN Numeric(RatDiv(a.v, b.v), "None", FALSE, TRUE)
                ELSE Div(a, b, FALSE, FALSE)
           [] OTHER -> Div(a, b, FALSE, FALSE)
    ELSE Div(a, b, space1, space2)

\* A Div arm that re-emits every symbolic Div with the spacing of the source.
do_evaluate_div_spaced(a, b, space1, space2, arithmetic) ==
    IF arithmetic \/ is_calculated(a) \/ is_calculated(b)
    THEN CASE a.tag = "Color" /\ b.tag = "Numeric" /\ b.u = "None" ->
                IF is_zero(b.v) THEN Panic
                ELSE rgba(RatDiv(a.r, b.v), RatDiv(a.g, b.v), RatDiv(a.b, b.v), a.a)
           [] a.tag = "Numeric" /\ b.tag = "Numeric" ->
                IF is_zero(b.v) THEN Div(a, b, space1, space2)
                ELSE IF b.u = "None" THEN Numeric(RatDiv(a.v, b.v), a.u, FALSE, TRUE)
                ELSE IF a.u = b.u THEN Numeric(RatDiv(a.v, b.v), "None", FALSE, TRUE)
                ELSE Div(a, b, space1, space2)
           [] OTHER -> Div(a, b, space1, space2)
    ELSE Div(a, b, space1, space2)

\* The Div arm of Value::do_evaluate once both operands are evaluated.
\* Color / Numeric divides the channels with Ratio's Div, which panics on
\* a zero divisor.
do_evaluate_div(a, b, space1, space2, arithmetic) ==
    IF arithmetic \/ is_calculated(a) \/ is_calculated(b)
    THEN CASE a.tag = "Color" /\ b.tag = "Numeric" /\ b.u = "None" ->
                IF is_zero(b.v) THEN Panic
                ELSE rgba(RatDiv(a.r, b.v), RatDiv(a.g, b.v), RatDiv(a.b, b.v), a.a)
           [] a.tag = "Numeric" /\ b.tag = "Numeric" ->
                IF is_zero(b.v) THEN Div(a, b, space1, space2)
                ELSE IF b.u = "None" THEN Numeric(RatDiv(a.v, b.v), a.u, FALSE, TRUE)
                ELSE IF a.u = b.u THEN Numeric(RatDiv(a.v, b.v), "None", FALSE, TRUE)
                ELSE Div(a, b, FALSE, FALSE)
           [] OTHER -> Div(a, b, FALSE, FALSE)
    ELSE Div(a, b, space1, space2)

\* Value::UnaryOp and Value::Call; the operators are "Not", "Minus", "Plus"
\* and the arguments of a call are a sequence of positional values.
UnaryOp(op, v) == [tag |-> "UnaryOp", op |-> op, v |-> v]
Call(name, args) == [tag |-> "Call", name |-> name, args |-> args]

\* Value::bool.
bool(v) == IF v THEN True ELSE False

\* Neg for Rational.
RatNeg(r) == <<0 - r[1], r[2]>>

\* Result<Value, Error> and Error::bad_value.
Ok(v) == [tag |-> "Ok", v |-> v]
Err(e) == [tag |-> "Err", e |-> e]
bad_value(expected, actual) ==
    [tag |-> "BadValue", expected |-> expected, actual |-> actual]

\* The registry of built-in functions holds one function here, red, which
\* returns the red channel of its one colour argument and fails with a
\* BadValue on anything else.
get_builtin_function(name) == IF name = "red" THEN Some("red") ELSE None

function_call(function, args) ==
    IF Len(args) = 1 /\ args[1].tag = "Color"
    THEN Ok(Numeric(args[1].r, "None", FALSE, TRUE))
    ELSE Err(bad_value("color", args))

\* The UnaryOp arm of Value::do_evaluate once the operand is evaluated.
do_evaluate_unary(op, value) ==
    CASE op = "Not" /\ value.tag = "Numeric" -> bool(is_zero(value.v))
      [] op = "Not" /\ value.tag = "True" -> False
      [] op = "Not" /\ value.tag = "False" -> True
      [] op = "Minus" /\ value.tag = "Numeric" ->
            Numeric(RatNeg(value.v), value.u, FALSE, TRUE)
      [] op = "Plus" /\ value.tag = "Numeric" ->
            Numeric(value.v, value.u, TRUE, TRUE)
      [] OTHER -> UnaryOp(op, value)

\* The Call arm of Value::do_evaluate once the arguments are evaluated; the
\* scopes of the model define no function, so call_function finds none.
\* An Err from the built-in is answered with panic!.
do_evaluate_call(name, args) ==
    IF get_builtin_function(name) # None
    THEN LET r == function_call(get_builtin_function(name).val, args)
         IN  IF r.tag = "Ok" THEN r.v ELSE Panic
    ELSE Call(name, args)

\* A dividend that is never evaluated again.
reevaluate_dividend_never(a, b, arithmetic) == FALSE

\* The test of the Div arm that has the dividend evaluated again with the
\* arithmetic flag on: the divisor came out calculated, the dividend of the
\* source is not calculated, and the flag is off.
reevaluate_dividend(a, b, arithmetic) ==
    ~arithmetic /\ is_calculated(b) /\ ~is_calculated(a)

\* Display and unquote of css::Value are defined with the css values below.
RECURSIVE css_fmt(_, _)
RECURSIVE unquote(_)

\* The match of the Interpolation arm on the evaluated operand.
do_evaluate_interpolation(value) ==
    LET v == unquote(value)
    IN  CASE v.tag = "Null" -> Null
          [] v.tag = "Literal" -> Literal(v.s, "None")
          [] OTHER -> Literal(css_fmt(v, FALSE), "None")

RECURSIVE do_evaluate(_, _, _, _)
do_evaluate(val, sc, k, arithmetic) ==
    CASE val.tag = "Literal" -> Literal(val.s, val.q)
      [] val.tag = "Paren" -> do_evaluate(val.a, sc, k, TRUE)
      [] val.tag = "Color" -> Color(val.r, val.g, val.b, val.a, val.n)
      [] val.tag = "Variable" -> into_calculated(get(sc, k, val.name))
      [] val.tag = "List" ->
            LET items == [i \in DOMAIN val.items |->
                            do_evaluate(val.items[i], sc, k, FALSE)]
            IN  IF \E i \in DOMAIN items : items[i] = Panic THEN Panic
                ELSE List(items, val.sep, val.bracketed)
      [] val.tag = "Div" ->
            LET aa == do_evaluate(val.a, sc, k, arithmetic)
                b == do_evaluate(val.b, sc, k, arithmetic \/ is_calculated(val.a))
                a == IF reevaluate_dividend(val.a, b, arithmetic)
                     THEN do_evaluate(val.a, sc, k, TRUE)
                     ELSE aa
            IN  IF aa = Panic \/ b = Panic \/ a = Panic THEN Panic
                ELSE do_evaluate_div(a, b, val.s1, val.s2, arithmetic)
      [] val.tag = "Numeric" ->
            Numeric(val.v, val.u, val.sign, arithmetic \/ val.calc)
      [] val.tag = "Null" -> Null
      [] val.tag = "True" -> True
      [] val.tag = "False" -> False
      [] val.tag = "Call" ->
            LET args == [i \in DOMAIN val.args |->
                           do_evaluate(val.args[i], sc, k, TRUE)]
            IN  IF \E i \in DOMAIN args : args[i] = Panic THEN Panic
                ELSE do_evaluate_call(val.name, args)
      [] val.tag = "UnaryOp" ->
            LET value == do_evaluate(val.v, sc, k, TRUE)
            IN  IF value = Panic THEN Panic
                ELSE do_evaluate_unary(val.op, value)
      [] val.tag = "Interpolation" ->
            LET value == do_evaluate(val.v, sc, k, TRUE)
            IN  IF value = Panic THEN Panic
                ELSE do_evaluate_interpolation(value)

\* Value::evaluate.
evaluate(val, sc, k) == do_evaluate(val, sc, k, FALSE)

----------------------------------------------------------------------------
(* The scope machine: a program builds child scopes, defines and reads     *)
(* variables and mixins in the innermost scope (a child borrows its parent *)
(* mutably, so only the innermost scope can be called), and drops scopes.  *)

Names == {"x", "y"}
MixinNames == {"bung"}
MixinBodies == {"original", "redefined"}

Str(c) == Literal(<<c>>, "None")
Num(n, u) == Numeric(from_integer(n), u, FALSE, FALSE)

\* The expressions a declaration `$name: expr` is drawn from: two literals
\* and a reference to $y.  A binding that holds Null was therefore declared
\* from $y at a moment $y resolved to Null.
DefineExprs ==
    {Str("a"), Num(1, "None"), Variable("y")}

\* The expressions handed to evaluate.
EvaluateExprs ==
    DefineExprs
    \cup {Variable("x")}
    \cup {Div(Variable("x"), Num(2, "None"), s, s) : s \in BOOLEAN}
    \cup {Div(Num(10, "px"), Num(8, "px"), FALSE, FALSE),
          Paren(Div(Num(10, "px"), Num(8, "px"), FALSE, FALSE)),
          Div(Num(10, "px"), Variable("y"), TRUE, FALSE),
          Product(Num(3, "None"), Variable("y")),
          List(<<Num(1, "None"), Variable("y")>>, "Space", FALSE)}

Op(op, name, val, global, res) ==
    [op |-> op, name |-> name, val |-> val, global |-> global,
     arith |-> FALSE, res |-> res]

top == Len(scopes)

RECURSIVE CountBindings(_)
CountBindings(sc) ==
    IF sc = <<>> THEN 0
    ELSE Cardinality(DOMAIN Head(sc).variables)
         + Cardinality(DOMAIN Head(sc).mixins)
         + CountBindings(Tail(sc))

Init ==
    /\ scopes = <<ScopeImpl>>
    /\ last = Op("new", "", Null, FALSE, Null)

Sub ==
    /\ top < MaxDepth
    /\ scopes' = Append(scopes, ScopeImpl)
    /\ last' = Op("sub", "", Null, FALSE, Null)

\* The innermost scope goes out of scope; its parent is callable again.
Drop ==
    /\ top > 1
    /\ scopes' = SubSeq(scopes, 1, top - 1)
    /\ last' = Op("drop", "", Null, FALSE, Null)

\* res is Panic when the call panicked, and Null (define returns nothing)
\* otherwise.
Define(name, val, global) ==
    /\ scopes' = define(scopes, top, name, val, global)
    /\ CountBindings(scopes') <= MaxBindings
    /\ last' = Op("define", name, val, global,
                  IF define_panics(scopes, top, name, val, global)
                  THEN Panic ELSE Null)

DefineDefault(name, val, global) ==
    /\ scopes' = define_default(scopes, top, name, val, global)
    /\ CountBindings(scopes') <= MaxBindings
    /\ last' = Op("define_default", name, val, global,
                  IF get(scopes, top, name) = Null
                     /\ define_panics(scopes, top, name, val, global)
                  THEN Panic ELSE Null)

\* res keeps what BTreeMap::insert returns (and define_mixin discards): the
\* declaration this scope held under that name before.
DefineMixin(m) ==
    /\ scopes' = define_mixin(scopes, top, m)
    /\ CountBindings(scopes') <= MaxBindings
    /\ last' = Op("define_mixin", m.name, m, FALSE,
                  IF m.name \in DOMAIN scopes[top].mixins
                  THEN Some(scopes[top].mixins[m.name]) ELSE None)

Get(name) ==
    /\ last' = Op("get", name, Null, FALSE, get(scopes, top, name))
    /\ UNCHANGED scopes

GetMixin(name) ==
    /\ last' = Op("get_mixin", name, Null, FALSE, get_mixin(scopes, top, name))
    /\ UNCHANGED scopes

Evaluate(val) ==
    /\ last' = Op("evaluate", "", val, FALSE, ScopeImpl_evaluate(scopes, top, val))
    /\ UNCHANGED scopes

Next ==
    \/ Sub
    \/ Drop
    \/ \E name \in Names, val \in DefineExprs, global \in BOOLEAN :
          Define(name, val, global)
    \/ \E name \in Names, val \in DefineExprs, global \in BOOLEAN :
          DefineDefault(name, val, global)
    \/ \E name \in MixinNames, body \in MixinBodies :
          DefineMixin(MixinDeclaration(name, body))
    \/ \E name \in Names : Get(name)
    \/ \E name \in MixinNames : GetMixin(name)
    \/ \E val \in EvaluateExprs : Evaluate(val)

Spec == Init /\ [][Next]_vars

----------------------------------------------------------------------------
(* Evaluation of divisions: every input is one expression, one scope and   *)
(* one arithmetic flag, and do_evaluate is applied to it.                  *)

black == Color(from_integer(0), from_integer(0), from_integer(0),
               from_integer(1), Some(<<"b", "l", "a", "c", "k">>))

\* The operands of a single division a/b.
DivAtoms ==
    {Num(10, "px"), Num(8, "px"), Num(2, "em"), Num(15, "None"), Num(3, "None"),
     Num(0, "None"), Num(0, "px"),
     Numeric(from_integer(500), "px", FALSE, TRUE),
     Variable("x"), Paren(Num(2, "None")), Str("a"), black,
     Color(from_integer(16), from_integer(32), from_integer(255), RatNew(1, 2), None)}

\* The operands of a chain a/b/c.
ChainAtoms ==
    {Num(15, "None"), Num(3, "None"), Num(5, "None"), Num(0, "None"), Variable("x")}

\* Left-nested chains with n slashes, the spacing the same at every slash.
RECURSIVE Chains(_, _)
Chains(n, s) ==
    IF n = 0 THEN ChainAtoms
    ELSE {Div(c, a, s, s) : c \in Chains(n - 1, s), a \in ChainAtoms}

DivExprs ==
    {Div(a, b, s1, s2) : a \in DivAtoms, b \in DivAtoms, s1 \in BOOLEAN, s2 \in BOOLEAN}
    \cup UNION {Chains(n, s) : n \in 2..MaxChain, s \in BOOLEAN}

\* What $x is bound to in the scope the division is evaluated in.
DivBindings == {Num(5, "None"), Num(0, "None"), Num(1000, "px")}

InitDiv ==
    /\ \E v \in DivBindings :
          scopes = <<[variables |-> ("x" :> v), mixins |-> <<>>]>>
    /\ \E val \in DivExprs, arithmetic \in BOOLEAN :
          last = [Op("input", "", val, FALSE, Null) EXCEPT !.arith = arithmetic]

DoEvaluate ==
    /\ last.op = "input"
    /\ last' = [last EXCEPT !.op = "do_evaluate",
                            !.res = do_evaluate(last.val, scopes, top, last.arith)]
    /\ UNCHANGED scopes

NextDiv == DoEvaluate

SpecDiv == InitDiv /\ [][NextDiv]_vars

----------------------------------------------------------------------------
(* Properties of the scope machine (checked under Spec).                   *)

\* The places on the path from scope k to the root that bind name, and the
\* binding of the nearest one (Null when there is none).
Binders(sc, k, name) == {j \in 1..k : name \in DOMAIN sc[j].variables}
Nearest(sc, k, name) ==
    IF Binders(sc, k, name) = {} THEN Null
    ELSE LET j == CHOOSE j \in Binders(sc, k, name) :
                     \A i \in Binders(sc, k, name) : i <= j
         IN  sc[j].variables[name]

MixinBinders(sc, k, name) == {j \in 1..k : name \in DOMAIN sc[j].mixins}
NearestMixin(sc, k, name) ==
    IF MixinBinders(sc, k, name) = {} THEN None
    ELSE LET j == CHOOSE j \in MixinBinders(sc, k, name) :
                     \A i \in MixinBinders(sc, k, name) : i <= j
         IN  Some(sc[j].mixins[name])

RECURSIVE HasVariable(_)
HasVariable(v) ==
    CASE v.tag = "Variable" -> TRUE
      [] v.tag \in {"Paren"} -> HasVariable(v.a)
      [] v.tag \in {"Div", "Product"} -> HasVariable(v.a) \/ HasVariable(v.b)
      [] v.tag = "List" -> \E i \in DOMAIN v.items : HasVariable(v.items[i])
      [] OTHER -> FALSE

\* C1: get(name) returns the binding of the nearest scope on the path to the
\* root that binds the name, and Null, an ordinary value, when none does.
C1_GetNearest ==
    last.op = "get" =>
        /\ last.res = Nearest(scopes, top, last.name)
        /\ last.res # Panic
        /\ (Binders(scopes, top, last.name) = {} => last.res = Null)

\* C1 witness: a get answered by the parent's binding while the root binds
\* the same name to another value and the calling scope binds nothing.
C1_Witness ==
    /\ last.op = "get"
    /\ top = 3
    /\ Binders(scopes, top, last.name) = {1, 2}
    /\ scopes[1].variables[last.name] # scopes[2].variables[last.name]
    /\ last.res = scopes[2].variables[last.name]

\* C2: a step define(name, val, global = true) leaves the root binding the
\* name and changes nothing else: the calling scope, every intermediate
\* scope, the root's other variables and the root's mixins stay as they were.
C2_GlobalDefineWritesRoot ==
    [][ (last'.op = "define" /\ last'.global) =>
            /\ Len(scopes') = Len(scopes)
            /\ last'.name \in DOMAIN scopes'[1].variables
            /\ \A k \in 2..Len(scopes) : scopes'[k] = scopes[k]
            /\ scopes'[1].mixins = scopes[1].mixins
            /\ \A n \in Names \ {last'.name} :
                  /\ (n \in DOMAIN scopes'[1].variables) = (n \in DOMAIN scopes[1].variables)
                  /\ Nearest(scopes', 1, n) = Nearest(scopes, 1, n)
      ]_vars

\* C2 witness: a global define made two scopes below the root, after which
\* only the root binds the name.
C2_Witness ==
    /\ last.op = "define"
    /\ last.global
    /\ top = 3
    /\ Binders(scopes, top, last.name) = {1}
    /\ scopes[1].variables[last.name] = Str("a")

\* C3: a step define(name, val, global = false) changes the calling scope's
\* own variable map only: every ancestor keeps its maps, so get on an
\* ancestor answers as before for every name, also for a name the ancestor
\* binds itself; and dropping the child leaves the remaining chain as it was.
C3_LocalDefineShadows ==
    [][ /\ (last'.op = "define" /\ ~last'.global) =>
              /\ Len(scopes') = Len(scopes)
              /\ last'.name \in DOMAIN scopes'[top].variables
              /\ scopes'[top].mixins = scopes[top].mixins
              /\ \A k \in 1..(top - 1) :
                    /\ scopes'[k] = scopes[k]
                    /\ \A n \in Names : Nearest(scopes', k, n) = Nearest(scopes, k, n)
        /\ last'.op = "drop" =>
              /\ Len(scopes') = Len(scopes) - 1
              /\ \A k \in 1..Len(scopes') :
                    /\ scopes'[k] = scopes[k]
                    /\ \A n \in Names : Nearest(scopes', k, n) = Nearest(scopes, k, n)
      ]_vars

\* C3 witness: a local define in a child of a name its parent binds to
\* another value: the child shadows it and the parent still holds its own.
C3_Witness ==
    /\ last.op = "define"
    /\ ~last.global
    /\ top >= 2
    /\ last.name \in DOMAIN scopes[top].variables
    /\ last.name \in DOMAIN scopes[top - 1].variables
    /\ scopes[top].variables[last.name] = Str("a")
    /\ scopes[top - 1].variables[last.name] = Numeric(from_integer(1), "None", FALSE, TRUE)

\* C4: define stores an evaluated value, with no reference to a variable
\* left in it, so a later define (or define_default) of a name leaves the
\* binding of every other name, and what that other name evaluates to, as it
\* was in every scope of the chain.
C4_DefineFixesValue ==
    [][ last'.op \in {"define", "define_default"} =>
            /\ \A k \in 1..Len(scopes') : \A n \in DOMAIN scopes'[k].variables :
                  ~HasVariable(scopes'[k].variables[n])
            /\ \A k \in 1..Len(scopes) : \A m \in Names \ {last'.name} :
                  /\ Nearest(scopes', k, m) = Nearest(scopes, k, m)
                  /\ ScopeImpl_evaluate(scopes', k, Variable(m))
                        = ScopeImpl_evaluate(scopes, k, Variable(m))
      ]_vars

\* C4 witness: $x holds Null, so it was declared as `$x: $y` while $y was
\* unbound; $y has now been defined as a, and $x is still Null.
C4_Witness ==
    /\ last.op = "define"
    /\ last.name = "y"
    /\ last.val = Str("a")
    /\ "x" \in DOMAIN scopes[top].variables
    /\ scopes[top].variables["x"] = Null
    /\ Nearest(scopes, top, "y") = Str("a")

\* C5: define(name, val, global = true) called on a non-root scope inserts
\* in the root the value val evaluates to in the calling scope.
C5_GlobalDefineEvaluatesInCaller ==
    [][ (last'.op = "define" /\ last'.global /\ top > 1) =>
            /\ last'.name \in DOMAIN scopes'[1].variables
            /\ scopes'[1].variables[last'.name]
                  = ScopeImpl_do_evaluate(scopes, top, last'.val, TRUE)
      ]_vars

\* C6: define_default changes no scope when get(name) on the calling scope
\* is not Null, and otherwise does exactly what define does.
C6_DefineDefault ==
    [][ last'.op = "define_default" =>
            IF Nearest(scopes, top, last'.name) # Null
            THEN scopes' = scopes
            ELSE scopes' = define(scopes, top, last'.name, last'.val, last'.global)
      ]_vars

\* C6 witness: a define_default in a child that changed nothing because the
\* parent chain resolves the name to a value; the child still has no binding.
C6_Witness ==
    /\ last.op = "define_default"
    /\ ~last.global
    /\ top >= 2
    /\ last.name \notin DOMAIN scopes[top].variables
    /\ Nearest(scopes, top, last.name) = Str("a")
    /\ last.val = Num(1, "None")

\* C7: get_mixin returns the declaration of the nearest scope on the path to
\* the root that defines the name, absent when none does; define_mixin makes
\* its declaration the one the calling scope holds, replacing an earlier one,
\* and changes no other scope; no other operation on a scope changes what
\* get_mixin returns on it.
C7_MixinLookup ==
    [][ /\ last'.op = "get_mixin" =>
              last'.res = NearestMixin(scopes, top, last'.name)
        /\ last'.op = "define_mixin" =>
              /\ Len(scopes') = Len(scopes)
              /\ NearestMixin(scopes', top, last'.name) = Some(last'.val)
              /\ \A k \in 1..(top - 1) : scopes'[k] = scopes[k]
        /\ last'.op \in {"define", "define_default", "get", "get_mixin", "evaluate"} =>
              \A n \in MixinNames :
                  NearestMixin(scopes', top, n) = NearestMixin(scopes, top, n)
      ]_vars

\* C7 witness: a define_mixin that replaced the declaration its scope held
\* under the same name, in a child of a scope that declares the name too.
C7_Witness ==
    /\ last.op = "define_mixin"
    /\ last.res = Some(MixinDeclaration("bung", "original"))
    /\ last.val = MixinDeclaration("bung", "redefined")
    /\ top = 2
    /\ MixinBinders(scopes, top, "bung") = {1, 2}
    /\ scopes[2].mixins["bung"] = last.val
    /\ scopes[1].mixins["bung"] = MixinDeclaration("bung", "original")

----------------------------------------------------------------------------
(* Properties of the evaluation of divisions (checked under SpecDiv).      *)

\* The values an operand can evaluate to, over both settings of the flag.
Evaluations(val) == {do_evaluate(val, scopes, top, f) : f \in BOOLEAN}

\* C8: outside an arithmetic context, a Div whose evaluated operands are
\* both not calculated evaluates to the Div of the evaluated operands with
\* both spacing flags as written; nothing is divided.
C8_LiteralDivStaysSymbolic ==
    (last.op = "do_evaluate" /\ last.val.tag = "Div" /\ ~last.arith) =>
        LET a == do_evaluate(last.val.a, scopes, top, FALSE)
            b == do_evaluate(last.val.b, scopes, top, FALSE)
        IN  (a # Panic /\ b # Panic /\ ~is_calculated(a) /\ ~is_calculated(b)) =>
                last.res = Div(a, b, last.val.s1, last.val.s2)

\* C8 witness: the literal chain 15 / 3 / 5, written with spaces, evaluated
\* outside an arithmetic context and returned as written.
C8_Witness ==
    /\ last.op = "do_evaluate"
    /\ ~last.arith
    /\ last.val = Div(Div(Num(15, "None"), Num(3, "None"), TRUE, TRUE),
                      Num(5, "None"), TRUE, TRUE)
    /\ last.res = last.val

\* C9: when the divisor of a Div evaluates to a Number equal to zero and the
\* dividend evaluates to a Number, the result is, with the arithmetic flag on
\* or off and the operands calculated or not, a Div that holds the evaluated
\* operands and both spacing flags of the source expression.
C9_ZeroDivisorStaysSymbolic ==
    (last.op = "do_evaluate" /\ last.val.tag = "Div" /\ last.res # Panic) =>
        ((/\ \E a \in Evaluations(last.val.a) : a.tag = "Numeric"
          /\ \E b \in Evaluations(last.val.b) : b.tag = "Numeric" /\ is_zero(b.v))
         =>
            /\ last.res.tag = "Div"
            /\ last.res.a \in Evaluations(last.val.a)
            /\ last.res.b \in Evaluations(last.val.b)
            /\ last.res.b.tag = "Numeric" /\ is_zero(last.res.b.v)
            /\ last.res.s1 = last.val.s1
            /\ last.res.s2 = last.val.s2)

\* C9 witness: 500px / 0 in an arithmetic context, written with a space
\* before the slash only: a Div of two calculated numbers, spaced as written.
C9_Witness ==
    /\ last.op = "do_evaluate"
    /\ last.arith
    /\ last.res = Div(Numeric(from_integer(500), "px", FALSE, TRUE),
                      Numeric(from_integer(0), "None", FALSE, TRUE), TRUE, FALSE)

\* C10: evaluating a Div never fails: whatever the operands are and whatever
\* the divisor is, zero included, do_evaluate returns a value.
C10_DivNeverFails ==
    last.op = "do_evaluate" => last.res # Panic

\* The two operands of a Div as Value::do_evaluate evaluates them before it
\* divides: the divisor with the flag on when the source dividend is
\* calculated, the dividend again with the flag on when only the divisor
\* came out calculated.
DivOperands(val, arithmetic) ==
    LET aa == do_evaluate(val.a, scopes, top, arithmetic)
        b == do_evaluate(val.b, scopes, top, arithmetic \/ is_calculated(val.a))
    IN  <<IF reevaluate_dividend(val.a, b, arithmetic)
          THEN do_evaluate(val.a, scopes, top, TRUE) ELSE aa,
          b>>

\* C11: a Number divided by a non-zero Number in a dividing context (flag
\* on, or an operand calculated) is a calculated Number: with the unit of
\* the operand that has one when exactly one unit is None, on either side,
\* and unitless when both units are equal.
C11_DivUnits ==
    (last.op = "do_evaluate" /\ last.val.tag = "Div") =>
        LET ab == DivOperands(last.val, last.arith)
            a == ab[1]
            b == ab[2]
        IN  (/\ a.tag = "Numeric" /\ b.tag = "Numeric" /\ ~is_zero(b.v)
             /\ (last.arith \/ is_calculated(a) \/ is_calculated(b))
             /\ (a.u = b.u \/ a.u = "None" \/ b.u = "None"))
            => last.res = Numeric(RatDiv(a.v, b.v),
                                  IF a.u = b.u THEN "None"
                                  ELSE IF b.u = "None" THEN a.u ELSE b.u,
                                  FALSE, TRUE)

----------------------------------------------------------------------------
(* Evaluation of unary operations and calls: one expression, one scope and *)
(* one arithmetic flag, and do_evaluate is applied to it.                  *)

\* The operands of a unary operation and the arguments of a call.
EvalAtoms ==
    {Num(0, "None"), Num(5, "None"), Num(0, "px"),
     Numeric(RatNew(1, 2), "None", FALSE, FALSE),
     Numeric(from_integer(0), "None", FALSE, TRUE),
     True, False, Null, Str("a"), Variable("x"), black,
     Paren(Num(0, "None")),
     Div(Num(10, "None"), Num(2, "None"), FALSE, FALSE)}

EvalExprs ==
    {UnaryOp(op, a) : op \in {"Not", "Minus", "Plus"}, a \in EvalAtoms}
    \cup {UnaryOp("Not", UnaryOp(op, a)) : op \in {"Not", "Minus"}, a \in EvalAtoms}
    \cup {Call(name, <<a>>) : name \in {"red", "foo"}, a \in EvalAtoms}
    \cup {Call(name, <<>>) : name \in {"red", "foo"}}

\* What $x is bound to in the scope the expression is evaluated in.
EvalBindings == {Num(0, "None"), Num(3, "px"), Str("a"), True, black}

InitEval ==
    /\ \E v \in EvalBindings :
          scopes = <<[variables |-> ("x" :> v), mixins |-> <<>>]>>
    /\ \E val \in EvalExprs, arithmetic \in BOOLEAN :
          last = [Op("input", "", val, FALSE, Null) EXCEPT !.arith = arithmetic]

NextEval == DoEvaluate

SpecEval == InitEval /\ [][NextEval]_vars

\* C12: `not` applied to an operand that evaluates to a Number is False,
\* for every number, zero included.
C12_NotNumberIsFalse ==
    (/\ last.op = "do_evaluate"
     /\ last.val.tag = "UnaryOp" /\ last.val.op = "Not"
     /\ do_evaluate(last.val.v, scopes, top, TRUE).tag = "Numeric")
    => last.res = False

\* C13: a call of a built-in function that returns an error evaluates to an
\* error value that names the function and wraps the cause.
C13_FunctionErrorIsValue ==
    (/\ last.op = "do_evaluate"
     /\ last.val.tag = "Call"
     /\ get_builtin_function(last.val.name) # None)
    => LET args == [i \in DOMAIN last.val.args |->
                      do_evaluate(last.val.args[i], scopes, top, TRUE)]
           r == function_call(get_builtin_function(last.val.name).val, args)
       IN  (Panic \notin {args[i] : i \in DOMAIN args} /\ r.tag = "Err") =>
              last.res = [tag |-> "BadCall", name |-> last.val.name, cause |-> r.e]

----------------------------------------------------------------------------
(* Display for css::Value: numbers and colours.  alt is out.alternate(),   *)
(* the compressed style.                                                   *)

\* Ratio::to_integer (truncates towards zero), Ratio::fract and abs.
to_integer(r) == IF r[1] >= 0 THEN r[1] \div r[2] ELSE -((-r[1]) \div r[2])
fract(r) == RatNew(r[1] - to_integer(r) * r[2], r[2])
RatAbs(r) == <<Abs(r[1]), r[2]>>
RatGe(x, y) == x[1] * y[2] >= y[1] * x[2]

\* `as u8` on an isize: the low eight bits.
as_u8(n) == n % 256

\* The digits Decimals writes after the point: at most n digits of the
\* expansion of f, the loop left as soon as nothing remains, and then, when
\* something remains, (f * 10).round() written as an integer.
RECURSIVE DecimalDigits(_, _)
DecimalDigits(f, n) ==
    IF n = 0
    THEN IF is_zero(f) THEN <<>>
         ELSE IntToStr(RatRound(RatMul(f, from_integer(10))))
    ELSE LET g == RatMul(f, from_integer(10))
         IN  IntToStr(to_integer(g))
             \o (IF is_zero(fract(g)) THEN <<>> ELSE DecimalDigits(fract(g), n - 1))

\* Display for Decimals.
Decimals_fmt(r, with_sign, skip_zero) ==
    LET t == to_integer(r)
        whole == IF t = 0
                 THEN IF is_negative(r) THEN <<"-", "0">>
                      ELSE IF with_sign THEN <<"+", "0">>
                      ELSE IF is_zero(r) \/ ~skip_zero THEN <<"0">>
                      ELSE <<>>
                 ELSE (IF with_sign /\ t >= 0 THEN <<"+">> ELSE <<>>) \o IntToStr(t)
        f == RatAbs(fract(r))
    IN  whole \o (IF is_zero(f) THEN <<>> ELSE <<".">> \o DecimalDigits(f, 4))

\* The names of colours, by channels (a part of the table of CSS names).
rgb_to_name(r, g, b) ==
    CASE <<r, g, b>> = <<255, 0, 0>> -> Some(<<"r", "e", "d">>)
      [] <<r, g, b>> = <<0, 0, 255>> -> Some(<<"b", "l", "u", "e">>)
      [] <<r, g, b>> = <<0, 0, 0>> -> Some(<<"b", "l", "a", "c", "k">>)
      [] <<r, g, b>> = <<255, 255, 255>> -> Some(<<"w", "h", "i", "t", "e">>)
      [] <<r, g, b>> = <<255, 255, 0>> -> Some(<<"y", "e", "l", "l", "o", "w">>)
      [] <<r, g, b>> = <<0, 255, 0>> -> Some(<<"l", "i", "m", "e">>)
      [] <<r, g, b>> = <<0, 255, 255>> -> Some(<<"c", "y", "a", "n">>)
      [] <<r, g, b>> = <<255, 0, 255>> ->
            Some(<<"m", "a", "g", "e", "n", "t", "a">>)
      [] <<r, g, b>> = <<210, 180, 140>> -> Some(<<"t", "a", "n">>)
      [] <<r, g, b>> = <<250, 235, 215>> ->
            Some(<<"a", "n", "t", "i", "q", "u", "e", "w", "h", "i", "t", "e">>)
      [] OTHER -> None

\* {:x} of a value below 16 and {:02x} of a u8.
HexDigit(d) ==
    <<"0", "1", "2", "3", "4", "5", "6", "7", "8", "9",
      "a", "b", "c", "d", "e", "f">>[d + 1]
Hex02(n) == <<HexDigit(n \div 16), HexDigit(n % 16)>>

\* An opaque colour that prints its name whenever it has one.
Color_fmt_opaque_named(c, alt) ==
    LET r == as_u8(RatRound(c.r))
        g == as_u8(RatRound(c.g))
        b == as_u8(RatRound(c.b))
        short == r % 17 = 0 /\ g % 17 = 0 /\ b % 17 = 0
        name == rgb_to_name(r, g, b)
    IN  IF name # None THEN name.val
        ELSE IF alt /\ short
        THEN <<"#", HexDigit(r \div 17), HexDigit(g \div 17), HexDigit(b \div 17)>>
        ELSE <<"#">> \o Hex02(r) \o Hex02(g) \o Hex02(b)

\* A colour with no source name and alpha >= 1.
Color_fmt_opaque(c, alt) ==
    LET r == as_u8(RatRound(c.r))
        g == as_u8(RatRound(c.g))
        b == as_u8(RatRound(c.b))
        short == r % 17 = 0 /\ g % 17 = 0 /\ b % 17 = 0
        hex_len == IF short THEN 4 ELSE 7
        name == rgb_to_name(r, g, b)
    IN  IF name # None /\ ~(alt /\ Len(name.val) > hex_len) THEN name.val
        ELSE IF alt /\ short
        THEN <<"#", HexDigit(r \div 17), HexDigit(g \div 17), HexDigit(b \div 17)>>
        ELSE <<"#">> \o Hex02(r) \o Hex02(g) \o Hex02(b)

\* An rgba(...) printer that drops the leading zero of the alpha in the
\* compressed style.
Color_fmt_rgba_skipzero(c, alt) ==
    LET sep == IF alt THEN <<",">> ELSE <<",", " ">>
    IN  <<"r", "g", "b", "a", "(">>
        \o NatToStr(as_u8(RatRound(c.r))) \o sep
        \o NatToStr(as_u8(RatRound(c.g))) \o sep
        \o NatToStr(as_u8(RatRound(c.b))) \o sep
        \o Decimals_fmt(c.a, FALSE, alt) \o <<")">>

\* A colour with no source name, alpha below 1, not transparent black.
Color_fmt_rgba(c, alt) ==
    LET sep == IF alt THEN <<",">> ELSE <<",", " ">>
    IN  <<"r", "g", "b", "a", "(">>
        \o NatToStr(as_u8(RatRound(c.r))) \o sep
        \o NatToStr(as_u8(RatRound(c.g))) \o sep
        \o NatToStr(as_u8(RatRound(c.b))) \o sep
        \o Decimals_fmt(c.a, FALSE, FALSE) \o <<")">>

\* A Color arm that prints the channels whether or not the colour has a
\* source name.
Color_fmt_unnamed(c, alt) ==
    IF RatGe(c.a, from_integer(1)) THEN Color_fmt_opaque(c, alt)
    ELSE IF is_zero(c.a) /\ is_zero(c.r) /\ is_zero(c.g) /\ is_zero(c.b)
    THEN <<"t", "r", "a", "n", "s", "p", "a", "r", "e", "n", "t">>
    ELSE Color_fmt_rgba(c, alt)

\* The Color arm of Display for css::Value.
Color_fmt(c, alt) ==
    IF c.n # None THEN c.n.val
    ELSE IF RatGe(c.a, from_integer(1)) THEN Color_fmt_opaque(c, alt)
    ELSE IF is_zero(c.a) /\ is_zero(c.r) /\ is_zero(c.g) /\ is_zero(c.b)
    THEN <<"t", "r", "a", "n", "s", "p", "a", "r", "e", "n", "t">>
    ELSE Color_fmt_rgba(c, alt)

\* The Numeric arm of Display for css::Value.
Numeric_fmt(v, alt) == Decimals_fmt(v.v, v.sign, alt) \o unit_fmt(v.u)

\* An is_null that does not look at the brackets of a list.
RECURSIVE css_is_null_any_list(_)
css_is_null_any_list(v) ==
    CASE v.tag = "Null" -> TRUE
      [] v.tag = "List" ->
            \A i \in DOMAIN v.items : css_is_null_any_list(v.items[i])
      [] OTHER -> FALSE

\* Value::is_null of css::Value.
RECURSIVE css_is_null(_)
css_is_null(v) ==
    CASE v.tag = "Null" -> TRUE
      [] v.tag = "List" /\ ~v.bracketed ->
            \A i \in DOMAIN v.items : css_is_null(v.items[i])
      [] OTHER -> FALSE

\* The text of a quoted literal: only the quote that delimits it is escaped.
RECURSIVE EscapeQuote(_, _)
EscapeQuote(s, quote) ==
    IF s = <<>> THEN <<>>
    ELSE (IF s[1] = quote THEN <<"\\", s[1]>> ELSE <<s[1]>>)
         \o EscapeQuote(Tail(s), quote)

\* The Literal arm of Display for css::Value.
Literal_fmt(v) ==
    CASE v.q = "Double" -> <<"\"">> \o EscapeQuote(v.s, "\"") \o <<"\"">>
      [] v.q = "Single" -> <<"'">> \o EscapeQuote(v.s, "'") \o <<"'">>
      [] v.q = "None" -> v.s

\* A needs_paren that wraps the bracketed space-separated elements.
needs_paren_bracketed(v, sep, brackets) ==
    v.tag = "List" /\ v.bracketed /\ v.sep = "Space"

\* needs_paren of the List arm: an element that is a list without brackets,
\* in a list that has brackets and is separated by spaces.
needs_paren(v, sep, brackets) ==
    IF v.tag = "List" /\ ~v.bracketed THEN brackets /\ sep = "Space"
    ELSE FALSE

\* The List arm of Display once the elements that are not null are
\* formatted: t is the sequence of their texts.
List_fmt(t, sep, brackets, alt) ==
    LET joined == IF sep = "Comma" /\ Len(t) = 1 THEN t[1] \o <<",">>
                  ELSE JoinStr(t, IF sep = "Comma"
                                  THEN (IF alt THEN <<",">> ELSE <<",", " ">>)
                                  ELSE <<" ">>)
    IN  (IF brackets THEN <<"[">> ELSE <<>>) \o joined
        \o (IF brackets THEN <<"]">> ELSE <<>>)

\* Display for css::Value, for the variants printed here.
css_fmt(v, alt) ==
    CASE v.tag = "Color" -> Color_fmt(v, alt)
      [] v.tag = "Numeric" -> Numeric_fmt(v, alt)
      [] v.tag = "Literal" -> Literal_fmt(v)
      [] v.tag = "List" ->
            LET kept == SelectSeq(v.items, LAMBDA x : ~css_is_null(x))
                t == [i \in DOMAIN kept |->
                        IF needs_paren(kept[i], v.sep, v.bracketed)
                        THEN <<"(">> \o css_fmt(kept[i], alt) \o <<")">>
                        ELSE css_fmt(kept[i], alt)]
            IN  List_fmt(t, v.sep, v.bracketed, alt)
      [] v.tag = "Div" ->
            css_fmt(v.a, alt) \o (IF v.s1 THEN <<" ">> ELSE <<>>) \o <<"/">>
            \o (IF v.s2 THEN <<" ">> ELSE <<>>) \o css_fmt(v.b, alt)
      [] v.tag = "True" -> <<"t", "r", "u", "e">>
      [] v.tag = "False" -> <<"f", "a", "l", "s", "e">>
      [] v.tag = "Null" -> <<>>

----------------------------------------------------------------------------
(* Formatting: a value is evaluated outside any arithmetic and the result  *)
(* is printed in one of the two styles.                                    *)

FormatChannels == {from_integer(0), from_integer(17), from_integer(255),
                   from_integer(170)}
FormatAlphas == {from_integer(0), RatNew(1, 2), RatNew(1, 3), from_integer(1)}

FormatColors ==
    {Color(r, g, b, a, n) :
        r \in FormatChannels, g \in FormatChannels, b \in FormatChannels,
        a \in FormatAlphas,
        n \in {None, Some(<<"#", "A", "b", "C">>)}}
    \cup {Color(from_integer(170), from_integer(187), from_integer(204),
                from_integer(1), n) :
            n \in {None, Some(<<"#", "A", "b", "C">>),
                   Some(<<"#", "A", "A", "b", "b", "C", "C">>)}}
    \cup {Color(from_integer(210), from_integer(180), from_integer(140), a, None) :
            a \in FormatAlphas}
    \cup {Color(from_integer(250), from_integer(235), from_integer(215), a, None) :
            a \in FormatAlphas}
    \cup {Color(RatNew(33, 2), RatNew(255, 2), from_integer(1),
                a, None) : a \in FormatAlphas}
    \cup {black}

FormatRationals ==
    {from_integer(0), from_integer(1), from_integer(-1), from_integer(5),
     from_integer(-12), RatNew(1, 2), RatNew(-1, 2), RatNew(3, 2), RatNew(-3, 2),
     RatNew(1, 3), RatNew(-2, 3), RatNew(1, 8), RatNew(1, 16), RatNew(1, 32),
     RatNew(1, 64), RatNew(12345, 1000), RatNew(1, 100000), RatNew(-1, 7),
     RatNew(19, 200000), RatNew(199999, 200000), RatNew(22, 7)}

FormatNumbers ==
    {Numeric(v, u, sign, FALSE) :
        v \in FormatRationals, u \in {"None", "px"}, sign \in BOOLEAN}

FormatValues == FormatColors \cup FormatNumbers \cup {Str("a")}

InitFormat ==
    /\ scopes = <<ScopeImpl>>
    /\ \E val \in FormatValues, alt \in BOOLEAN :
          last = [op |-> "input", val |-> val, alt |-> alt,
                  evaluated |-> Null, res |-> <<>>]

Format ==
    /\ last.op = "input"
    /\ LET v == evaluate(last.val, scopes, top)
       IN  last' = [last EXCEPT !.op = "fmt", !.evaluated = v,
                                !.res = css_fmt(v, last.alt)]
    /\ UNCHANGED scopes

NextFormat == Format

SpecFormat == InitFormat /\ [][NextFormat]_vars

----------------------------------------------------------------------------
(* Properties of formatting (checked under SpecFormat).                    *)

\* C14: a Color with a source name is printed as exactly that name in both
\* styles, whatever its channels and alpha are, and evaluating a colour
\* literal outside any arithmetic keeps the name.
C14_NamedColorVerbatim ==
    (last.op = "fmt" /\ last.val.tag = "Color" /\ last.val.n # None) =>
        /\ last.evaluated.tag = "Color"
        /\ last.evaluated.n = last.val.n
        /\ last.res = last.val.n.val

\* C14 witness: #AbC, held with channels and an alpha that would print as
\* rgba(0,17,255,0.5), printed in the compressed style as #AbC.
C14_Witness ==
    /\ last.op = "fmt"
    /\ last.alt
    /\ last.val = Color(from_integer(0), from_integer(17), from_integer(255),
                        RatNew(1, 2), Some(<<"#", "A", "b", "C">>))
    /\ last.res = <<"#", "A", "b", "C">>

\* C15: in the compressed style a Color with no source name and alpha >= 1
\* is printed as its CSS name when it has one no longer than the hex form,
\* else as #rgb when all rounded channels are multiples of 17 and as
\* #rrggbb otherwise; the text is never longer than the hex form.
C15_CompressedOpaqueColor ==
    (/\ last.op = "fmt" /\ last.alt
     /\ last.val.tag = "Color" /\ last.val.n = None
     /\ RatGe(last.val.a, from_integer(1)))
    => LET r == as_u8(RatRound(last.val.r))
           g == as_u8(RatRound(last.val.g))
           b == as_u8(RatRound(last.val.b))
           short == r % 17 = 0 /\ g % 17 = 0 /\ b % 17 = 0
           hex == IF short
                  THEN <<"#", HexDigit(r \div 17), HexDigit(g \div 17),
                         HexDigit(b \div 17)>>
                  ELSE <<"#">> \o Hex02(r) \o Hex02(g) \o Hex02(b)
           name == rgb_to_name(r, g, b)
       IN  /\ last.res = IF name # None /\ Len(name.val) <= Len(hex)
                         THEN name.val ELSE hex
           /\ Len(last.res) <= Len(hex)
           /\ short => Len(last.res) <= 4

\* C15 witness: opaque (255, 255, 0), whose name yellow is longer than #ff0,
\* printed in the compressed style as #ff0.
C15_Witness ==
    /\ last.op = "fmt"
    /\ last.alt
    /\ last.val = Color(from_integer(255), from_integer(255), from_integer(0),
                        from_integer(1), None)
    /\ last.res = <<"#", "f", "f", "0">>

\* The text s without its spaces.
RECURSIVE StripSpaces(_)
StripSpaces(s) ==
    IF s = <<>> THEN <<>>
    ELSE (IF s[1] = " " THEN <<>> ELSE <<s[1]>>) \o StripSpaces(Tail(s))

\* The place of the last comma of s.
LastComma(s) == CHOOSE i \in 1..Len(s) :
                    s[i] = "," /\ \A j \in (i + 1)..Len(s) : s[j] # ","

\* C16: a Color with no source name printed as rgba(...) has its alpha
\* printed with the leading zero in both styles, and the two styles differ
\* in nothing but the space after each comma.
C16_RgbaAlphaLeadingZero ==
    (/\ last.op = "fmt"
     /\ last.val.tag = "Color" /\ last.val.n = None
     /\ ~RatGe(last.val.a, from_integer(1))
     /\ ~(is_zero(last.val.a) /\ is_zero(last.val.r)
          /\ is_zero(last.val.g) /\ is_zero(last.val.b)))
    => LET alpha == SubSeq(last.res,
                           LastComma(last.res) + (IF last.alt THEN 1 ELSE 2),
                           Len(last.res) - 1)
       IN  /\ SubSeq(last.res, 1, 5) = <<"r", "g", "b", "a", "(">>
           /\ alpha[1] = "0"
           /\ is_zero(last.val.a) \/ alpha[2] = "."
           /\ StripSpaces(css_fmt(last.evaluated, FALSE)) = css_fmt(last.evaluated, TRUE)
           /\ Len(css_fmt(last.evaluated, FALSE)) = Len(css_fmt(last.evaluated, TRUE)) + 3

\* C16 witness: (255, 0, 17) with alpha 1/2 in the compressed style.
C16_Witness ==
    /\ last.op = "fmt"
    /\ last.alt
    /\ last.val = Color(from_integer(255), from_integer(0), from_integer(17),
                        RatNew(1, 2), None)
    /\ last.res = <<"r", "g", "b", "a", "(", "2", "5", "5", ",", "0", ",",
                    "1", "7", ",", "0", ".", "5", ")">>

\* The place of the decimal point of s.
PointPos(s) == CHOOSE i \in 1..Len(s) : s[i] = "."

\* C17: a non-zero Number strictly between -1 and 1 is printed with no 0 in
\* front of the decimal point in the compressed style, be it positive,
\* negative or explicitly signed, and with the 0 in the expanded style.
C17_CompressedNoLeadingZero ==
    (/\ last.op = "fmt"
     /\ last.val.tag = "Numeric"
     /\ ~is_zero(last.val.v) /\ to_integer(last.val.v) = 0)
    => LET p == PointPos(last.res)
       IN  IF last.alt THEN p = 1 \/ last.res[p - 1] # "0"
           ELSE p > 1 /\ last.res[p - 1] = "0"

\* C18: the text of a Number has at most 5 digits after the decimal point.
C18_AtMostFiveDecimals ==
    (/\ last.op = "fmt"
     /\ last.val.tag = "Numeric"
     /\ \E i \in 1..Len(last.res) : last.res[i] = ".")
    => Len(last.res) - Len(unit_fmt(last.val.u)) - PointPos(last.res) <= 5

----------------------------------------------------------------------------
(* Construction of colours: rgba on four rationals, and a Number added to  *)
(* or subtracted from every channel of a colour.                           *)

RatAdd(x, y) == RatNew(x[1] * y[2] + y[1] * x[2], x[2] * y[2])
RatSub(x, y) == RatNew(x[1] * y[2] - y[1] * x[2], x[2] * y[2])

\* Color + Number and Color - Number: channel by channel through rgba, the
\* alpha kept.
Operator_eval(op, a, b) ==
    CASE op = "Plus" ->
            rgba(RatAdd(a.r, b.v), RatAdd(a.g, b.v), RatAdd(a.b, b.v), a.a)
      [] op = "Minus" ->
            rgba(RatSub(a.r, b.v), RatSub(a.g, b.v), RatSub(a.b, b.v), a.a)

RgbaChannels == {from_integer(-1), from_integer(0), RatNew(1, 2),
                 from_integer(255), from_integer(256)}
RgbaAlphas == {RatNew(-1, 2), from_integer(0), RatNew(1, 2), from_integer(1),
               RatNew(3, 2)}
RgbaTerms == {from_integer(1), from_integer(300), RatNew(1, 2)}

InitRgba ==
    /\ scopes = <<ScopeImpl>>
    /\ \E r \in RgbaChannels, g \in RgbaChannels, b \in RgbaChannels,
          a \in RgbaAlphas, n \in RgbaTerms :
          last = [op |-> "input", r |-> r, g |-> g, b |-> b, a |-> a,
                  n |-> n, res |-> Null, text |-> <<>>]

Rgba ==
    /\ last.op = "input"
    /\ LET c == rgba(last.r, last.g, last.b, last.a)
       IN  last' = [last EXCEPT !.op = "rgba", !.res = c,
                                !.text = css_fmt(c, FALSE)]
    /\ UNCHANGED scopes

\* An operator applied to the colour rgba built and the unitless number n.
ColorArithmetic(op) ==
    /\ last.op = "rgba"
    /\ LET c == Operator_eval(op, last.res, Numeric(last.n, "None", FALSE, FALSE))
       IN  last' = [last EXCEPT !.op = op, !.r = last.res.r, !.g = last.res.g,
                                !.b = last.res.b, !.a = last.res.a,
                                !.res = c, !.text = css_fmt(c, FALSE)]
    /\ UNCHANGED scopes

NextRgba ==
    \/ Rgba
    \/ ColorArithmetic("Plus")
    \/ ColorArithmetic("Minus")

SpecRgba == InitRgba /\ [][NextRgba]_vars

\* x brought into [0, hi].
Clamp(x, hi) ==
    IF RatGe(x, hi) THEN hi
    ELSE IF RatGe(from_integer(0), x) THEN from_integer(0)
    ELSE x

\* C19: rgba(r, g, b, a) is a Color with no source name whose channels are
\* r, g, b brought into [0, 255] and whose alpha is a brought into [0, 1];
\* a Number added to or subtracted from a colour therefore saturates.
C19_RgbaClamps ==
    /\ last.op = "rgba" =>
          last.res = Color(Clamp(last.r, from_integer(255)),
                           Clamp(last.g, from_integer(255)),
                           Clamp(last.b, from_integer(255)),
                           Clamp(last.a, from_integer(1)), None)
    /\ last.op \in {"Plus", "Minus"} =>
          LET n == IF last.op = "Plus" THEN last.n ELSE RatNeg(last.n)
          IN  last.res = Color(Clamp(RatAdd(last.r, n), from_integer(255)),
                               Clamp(RatAdd(last.g, n), from_integer(255)),
                               Clamp(RatAdd(last.b, n), from_integer(255)),
                               last.a, None)

\* C19 witness: #00f + 1 is #0101ff, the blue channel kept at 255.
C19_Witness ==
    /\ last.op = "Plus"
    /\ <<last.r, last.g, last.b, last.a>>
          = <<from_integer(0), from_integer(0), from_integer(255), from_integer(1)>>
    /\ last.n = from_integer(1)
    /\ last.text = <<"#", "0", "1", "0", "1", "f", "f">>

----------------------------------------------------------------------------
(* Ordering of values: PartialOrd for Value applied to a pair.             *)

\* Ord for Rational.
RatCmp(x, y) ==
    IF x[1] * y[2] < y[1] * x[2] THEN "Less"
    ELSE IF x = y THEN "Equal" ELSE "Greater"

\* PartialOrd::partial_cmp for Value: two Numerics compare by their
\* rationals alone; the units are not looked at.
partial_cmp(a, b) ==
    IF a.tag = "Numeric" /\ b.tag = "Numeric" THEN Some(RatCmp(a.v, b.v))
    ELSE None

OrdValues ==
    {Numeric(v, u, FALSE, FALSE) :
        v \in {from_integer(1), from_integer(2), RatNew(1, 2)},
        u \in {"None", "px", "em"}}
    \cup {True, False, Null, Str("a"), black}

InitOrd ==
    /\ scopes = <<ScopeImpl>>
    /\ \E a \in OrdValues, b \in OrdValues :
          last = [op |-> "input", a |-> a, b |-> b, res |-> None]

Compare ==
    /\ last.op = "input"
    /\ last' = [last EXCEPT !.op = "partial_cmp",
                            !.res = partial_cmp(last.a, last.b)]
    /\ UNCHANGED scopes

NextOrd == Compare

SpecOrd == InitOrd /\ [][NextOrd]_vars

\* C20: a comparison yields an ordering only for two Numbers whose units
\* are compatible; for two Numbers with different units (px against em)
\* and for every pair with an operand that is not a Number it yields none.
C20_OrderingOnlyCompatibleNumbers ==
    last.op = "partial_cmp" =>
        /\ (last.a.tag # "Numeric" \/ last.b.tag # "Numeric") => last.res = None
        /\ (/\ last.a.tag = "Numeric" /\ last.b.tag = "Numeric"
            /\ last.a.u # last.b.u
            /\ last.a.u # "None" /\ last.b.u # "None") => last.res = None
        /\ (/\ last.a.tag = "Numeric" /\ last.b.tag = "Numeric"
            /\ last.a.u = last.b.u) => last.res # None

----------------------------------------------------------------------------
(* Quoting of css::Value: unquote and unrequote.  A string is a sequence   *)
(* of characters; the characters U+0001 .. U+000F and U+FFFD, which only   *)
(* decoding produces, are written "U+1" .. "U+F" and "U+FFFD".             *)

MaxStrLen == 3

\* (c as u8 - b'0') as char, (c as u8 - b'a' + 10) as char.
CodePoint(n) ==
    <<"U+1", "U+2", "U+3", "U+4", "U+5", "U+6", "U+7", "U+8", "U+9",
      "U+A", "U+B", "U+C", "U+D", "U+E", "U+F">>[n]

DecDigits == <<"1", "2", "3", "4", "5", "6", "7", "8", "9">>
LowerHex == <<"a", "b", "c", "d", "e", "f">>
UpperHex == <<"A", "B", "C", "D", "E", "F">>
IndexOf(c, seq) == CHOOSE i \in DOMAIN seq : seq[i] = c
InSeq(c, seq) == \E i \in DOMAIN seq : seq[i] = c

\* What unquote pushes for the character c that follows a backslash.
unquote_escape(c) ==
    IF c = "0" THEN <<"U+FFFD">>
    ELSE IF InSeq(c, DecDigits) THEN <<CodePoint(IndexOf(c, DecDigits))>>
    ELSE IF InSeq(c, LowerHex) THEN <<CodePoint(IndexOf(c, LowerHex) + 9)>>
    ELSE IF InSeq(c, UpperHex) THEN <<CodePoint(IndexOf(c, UpperHex) + 9)>>
    ELSE <<c>>

\* The loop of unquote over the characters of a quoted literal.
RECURSIVE unquote_chars(_)
unquote_chars(s) ==
    IF s = <<>> THEN <<>>
    ELSE IF s[1] = "\\"
    THEN IF Len(s) = 1 THEN <<"\\">>
         ELSE unquote_escape(s[2]) \o unquote_chars(SubSeq(s, 3, Len(s)))
    ELSE <<s[1]>> \o unquote_chars(Tail(s))

\* An unquote that decodes the escapes of unquoted literals as well.
RECURSIVE unquote_all(_)
unquote_all(v) ==
    CASE v.tag = "Literal" -> Literal(unquote_chars(v.s), "None")
      [] v.tag = "List" ->
            List([i \in DOMAIN v.items |-> unquote_all(v.items[i])],
                 v.sep, v.bracketed)
      [] OTHER -> v

\* Value::unquote.
unquote(v) ==
    CASE v.tag = "Literal" /\ v.q = "None" -> Literal(v.s, "None")
      [] v.tag = "Literal" /\ v.q # "None" -> Literal(unquote_chars(v.s), "None")
      [] v.tag = "List" ->
            List([i \in DOMAIN v.items |-> unquote(v.items[i])],
                 v.sep, v.bracketed)
      [] OTHER -> v

\* What unrequote pushes for the character c that follows a backslash.
unrequote_escape(c) ==
    IF c = "\\" THEN <<"\\", "\\">>
    ELSE IF c = "0" THEN <<"U+FFFD">>
    ELSE IF InSeq(c, DecDigits) THEN <<CodePoint(IndexOf(c, DecDigits))>>
    ELSE IF c \in {"a", "A"} THEN <<"\\", "a">>
    ELSE IF InSeq(c, LowerHex) THEN <<CodePoint(IndexOf(c, LowerHex) + 9)>>
    ELSE IF InSeq(c, UpperHex) THEN <<CodePoint(IndexOf(c, UpperHex) + 9)>>
    ELSE <<c>>

RECURSIVE unrequote_chars(_)
unrequote_chars(s) ==
    IF s = <<>> THEN <<>>
    ELSE IF s[1] = "\\"
    THEN IF Len(s) = 1 THEN <<"\\">>
         ELSE unrequote_escape(s[2]) \o unrequote_chars(SubSeq(s, 3, Len(s)))
    ELSE <<s[1]>> \o unrequote_chars(Tail(s))

\* An unrequote that always selects double quotes.
RECURSIVE unrequote_double(_)
unrequote_double(v) ==
    CASE v.tag = "Literal" /\ v.q = "None" -> Literal(v.s, "None")
      [] v.tag = "Literal" /\ v.q # "None" -> Literal(unrequote_chars(v.s), "Double")
      [] v.tag = "List" ->
            List([i \in DOMAIN v.items |-> unrequote_double(v.items[i])],
                 v.sep, v.bracketed)
      [] OTHER -> v

\* Value::unrequote.
RECURSIVE unrequote(_)
unrequote(v) ==
    CASE v.tag = "Literal" /\ v.q = "None" -> Literal(v.s, "None")
      [] v.tag = "Literal" /\ v.q # "None" ->
            LET result == unrequote_chars(v.s)
            IN  IF InSeq("\"", result) /\ ~InSeq("'", result)
                THEN Literal(result, "Single")
                ELSE Literal(result, "Double")
      [] v.tag = "List" ->
            List([i \in DOMAIN v.items |-> unrequote(v.items[i])],
                 v.sep, v.bracketed)
      [] OTHER -> v

\* The characters of the literals and the strings of up to n of them.
QuoteChars == {"a", "c", "x", "0", "1", "\\", "\"", "'"}

RECURSIVE Strings(_)
Strings(n) ==
    IF n = 0 THEN {<<>>}
    ELSE LET shorter == Strings(n - 1)
         IN  shorter \cup {Append(s, c) : s \in shorter, c \in QuoteChars}

QuoteLiterals ==
    {Literal(s, q) : s \in Strings(MaxStrLen), q \in {"None", "Double", "Single"}}

\* The elements lists are made of.
QuoteItems ==
    {Literal(<<"\\", "\\", "a">>, "Double"), Literal(<<"\\", "\\", "a">>, "None"),
     Literal(<<"\"", "\\", "1">>, "Single"), Literal(<<"'", "\"">>, "Double"),
     Literal(<<"x">>, "None"), Null, Num(1, "px")}

QuoteLists ==
    LET flat == {List(<<a, b>>, sep, br) :
                    a \in QuoteItems, b \in QuoteItems,
                    sep \in {"Space", "Comma"}, br \in BOOLEAN}
    IN  flat
        \cup {List(<<List(<<a, b>>, "Space", FALSE), a>>, "Comma", FALSE) :
                a \in QuoteItems, b \in QuoteItems}
        \cup {List(<<>>, "Space", FALSE)}

QuoteValues == QuoteLiterals \cup QuoteLists \cup {Null, True, Num(1, "px"), black}

InitQuote ==
    /\ scopes = <<ScopeImpl>>
    /\ \E v \in QuoteValues : last = [op |-> "input", arg |-> Null, res |-> v]

Unquote ==
    /\ last' = [op |-> "unquote", arg |-> last.res, res |-> unquote(last.res)]
    /\ UNCHANGED scopes

Unrequote ==
    /\ last' = [op |-> "unrequote", arg |-> last.res, res |-> unrequote(last.res)]
    /\ UNCHANGED scopes

NextQuote == Unquote \/ Unrequote

SpecQuote == InitQuote /\ [][NextQuote]_vars

\* Every literal of v that has no quotes is the same literal in w, at the
\* same place.
RECURSIVE SameUnquotedLeaves(_, _)
SameUnquotedLeaves(v, w) ==
    CASE v.tag = "Literal" -> v.q = "None" => w = v
      [] v.tag = "List" ->
            /\ w.tag = "List" /\ Len(w.items) = Len(v.items)
            /\ \A i \in DOMAIN v.items : SameUnquotedLeaves(v.items[i], w.items[i])
      [] OTHER -> TRUE

\* C21: unquote is idempotent, unquote(unquote(v)) = unquote(v) for
\* literals of any quoting, lists and other variants, and it leaves every
\* literal that had no quotes as it was.
C21_UnquoteIdempotent ==
    [][ last'.op = "unquote" =>
            /\ SameUnquotedLeaves(last'.arg, last'.res)
            /\ last.op = "unquote" => last'.res = last.res
      ]_vars

\* C21 witness: unquote applied to \a without quotes, which is what unquote
\* makes of "\\a", and which it returns as it is.
C21_Witness ==
    /\ last.op = "unquote"
    /\ last.arg = Literal(<<"\\", "a">>, "None")
    /\ last.res = last.arg


\* Single when the content holds a double quote and no single quote, else
\* Double.
Requote(s) == IF InSeq("\"", s) /\ ~InSeq("'", s) THEN "Single" ELSE "Double"

\* w is u with every literal re-quoted by Requote, contents as in u.
RECURSIVE IsRequoted(_, _)
IsRequoted(u, w) ==
    CASE u.tag = "Literal" -> w = Literal(u.s, Requote(u.s))
      [] u.tag = "List" ->
            /\ w.tag = "List" /\ Len(w.items) = Len(u.items)
            /\ w.sep = u.sep /\ w.bracketed = u.bracketed
            /\ \A i \in DOMAIN u.items : IsRequoted(u.items[i], w.items[i])
      [] OTHER -> w = u

\* C22 as stated: unrequote(v) is unquote(v) with every literal re-quoted,
\* the content the one unquote produces, the quoting Single if and only if
\* that content holds a double quote and no single quote, else Double.
C22_UnrequoteIsUnquoteRequoted ==
    last.op = "unrequote" => IsRequoted(unquote(last.arg), last.res)

\* The only escapes of s are backslash-backslash and backslash-a; a lone
\* backslash may end it.
RECURSIVE OnlyKeptEscapes(_)
OnlyKeptEscapes(s) ==
    IF s = <<>> THEN TRUE
    ELSE IF s[1] = "\\"
    THEN Len(s) = 1
         \/ (s[2] \in {"\\", "a"} /\ OnlyKeptEscapes(SubSeq(s, 3, Len(s))))
    ELSE OnlyKeptEscapes(Tail(s))

\* w re-quotes the quoted literals of v: a literal without quotes is left
\* as it is; a quoted one has a content whose only escapes are
\* backslash-backslash and backslash-a, that decodes to the content unquote
\* gives, and is quoted by Requote on that content.
RECURSIVE IsRequotedQuoted(_, _)
IsRequotedQuoted(v, w) ==
    CASE v.tag = "Literal" /\ v.q = "None" -> w = v
      [] v.tag = "Literal" /\ v.q # "None" ->
            /\ w.tag = "Literal"
            /\ OnlyKeptEscapes(w.s)
            /\ unquote_chars(w.s) = unquote_chars(v.s)
            /\ w.q = Requote(w.s)
      [] v.tag = "List" ->
            /\ w.tag = "List" /\ Len(w.items) = Len(v.items)
            /\ w.sep = v.sep /\ w.bracketed = v.bracketed
            /\ \A i \in DOMAIN v.items : IsRequotedQuoted(v.items[i], w.items[i])
      [] OTHER -> w = v

\* C22 amended: unrequote(v) leaves the literals without quotes as they are
\* and re-quotes the quoted ones.
C22_UnrequoteRequotesQuoted ==
    last.op = "unrequote" => IsRequotedQuoted(last.arg, last.res)

\* C22 witness: "\\a\"" re-quoted: the escapes \\ and the quote decoded to
\* \\a" (backslash kept escaped), in single quotes.
C22_Witness ==
    /\ last.op = "unrequote"
    /\ last.arg = Literal(<<"\\", "\\", "\"">>, "Double")
    /\ last.res = Literal(<<"\\", "\\", "\"">>, "Single")

----------------------------------------------------------------------------
(* Value::do_evaluate of value/mod.rs, which evaluates a Value to a Value. *)
(* Its Numeric has no sign flag (FALSE here) and its List no brackets.     *)

Interpolation(v) == [tag |-> "Interpolation", v |-> v]

\* without_quotes.
RECURSIVE without_quotes(_)
without_quotes(v) ==
    CASE v.tag = "Literal" -> Literal(v.s, "None")
      [] v.tag = "List" ->
            List([i \in DOMAIN v.items |-> without_quotes(v.items[i])],
                 v.sep, v.bracketed)
      [] OTHER -> v

\* The Numeric arm of Value::do_evaluate.
Value_numeric(val, arithmetic) ==
    Numeric(val.v, val.u, FALSE, arithmetic \/ val.calc)

\* The Div arm of Value::do_evaluate once both operands are evaluated.
Value_div(a, b, space1, space2, arithmetic) ==
    IF arithmetic \/ is_calculated(a) \/ is_calculated(b)
    THEN CASE a.tag = "Color" /\ b.tag = "Numeric" /\ b.u = "None" ->
                IF is_zero(b.v) THEN Panic
                ELSE rgba(RatDiv(a.r, b.v), RatDiv(a.g, b.v), RatDiv(a.b, b.v), a.a)
           [] a.tag = "Numeric" /\ b.tag = "Numeric" ->
                IF is_zero(b.v) THEN Div(a, b, space1, space2)
                ELSE IF b.u = "None" THEN Numeric(RatDiv(a.v, b.v), a.u, FALSE, TRUE)
                ELSE IF a.u = b.u THEN Numeric(RatDiv(a.v, b.v), "None", FALSE, TRUE)
                ELSE Div(a, b, FALSE, FALSE)
           [] OTHER -> Div(a, b, FALSE, FALSE)
    ELSE Div(a, b, space1, space2)

\* The Interpolation arm of Value::do_evaluate once the operand is evaluated.
Value_interpolation(value) ==
    LET v == without_quotes(value)
    IN  CASE v.tag = "Null" -> Null
          [] v.tag = "Literal" -> Literal(v.s, "None")
          [] OTHER -> Literal(value_fmt(v, FALSE), "None")

\* Value::do_evaluate, for the variants that need neither CallArgs nor
\* Operator::eval.
RECURSIVE Value_do_evaluate(_, _, _, _)
Value_do_evaluate(val, sc, k, arithmetic) ==
    CASE val.tag = "Literal" -> Literal(val.s, val.q)
      [] val.tag = "Paren" -> Value_do_evaluate(val.a, sc, k, TRUE)
      [] val.tag = "Color" -> val
      [] val.tag = "Variable" ->
            Value_do_evaluate(get(sc, k, val.name), sc, k, TRUE)
      [] val.tag = "List" ->
            LET items == [i \in DOMAIN val.items |->
                            Value_do_evaluate(val.items[i], sc, k, FALSE)]
            IN  IF \E i \in DOMAIN items : items[i] = Panic THEN Panic
                ELSE List(items, val.sep, val.bracketed)
      [] val.tag = "Div" ->
            LET aa == Value_do_evaluate(val.a, sc, k, arithmetic)
                b == Value_do_evaluate(val.b, sc, k,
                                       arithmetic \/ is_calculated(val.a))
                a == IF ~arithmetic /\ is_calculated(b) /\ ~is_calculated(val.a)
                     THEN Value_do_evaluate(val.a, sc, k, TRUE)
                     ELSE aa
            IN  IF aa = Panic \/ b = Panic \/ a = Panic THEN Panic
                ELSE Value_div(a, b, val.s1, val.s2, arithmetic)
      [] val.tag = "Numeric" -> Value_numeric(val, arithmetic)
      [] val.tag = "Null" -> Null
      [] val.tag = "True" -> True
      [] val.tag = "False" -> False
      [] val.tag = "UnaryOp" ->
            LET v == Value_do_evaluate(val.v, sc, k, TRUE)
            IN  IF v = Panic THEN Panic ELSE UnaryOp(val.op, v)
      [] val.tag = "Interpolation" ->
            LET v == Value_do_evaluate(val.v, sc, k, TRUE)
            IN  IF v = Panic THEN Panic ELSE Value_interpolation(v)

\* Value::evaluate.
Value_evaluate(val, sc, k) == Value_do_evaluate(val, sc, k, FALSE)

\* The expressions evaluated twice: divisions and chains, bare and in
\* parentheses, in lists, under a unary operator and interpolated.
IdemOperands ==
    {Num(10, "px"), Num(2, "em"), Num(3, "None"), Num(0, "None"),
     Numeric(from_integer(500), "px", FALSE, TRUE),
     Variable("x"), Str("a"), Literal(<<"a">>, "Double"), black}

IdemDivs ==
    {Div(a, b, s, s) : a \in IdemOperands, b \in IdemOperands, s \in BOOLEAN}

IdemExprs ==
    IdemOperands \cup IdemDivs
    \cup {Paren(d) : d \in IdemDivs}
    \cup {Div(d, a, s, s) : d \in {Div(Num(15, "None"), b, FALSE, FALSE) :
                                      b \in {Num(3, "None"), Num(0, "None"),
                                             Num(2, "em"), Variable("x")}},
                            a \in IdemOperands, s \in BOOLEAN}
    \cup {List(<<d, a>>, "Space", FALSE) :
            d \in {Div(Num(10, "px"), Num(2, "em"), TRUE, TRUE),
                   Paren(Div(Num(10, "px"), Num(3, "None"), FALSE, TRUE)),
                   Variable("x")},
            a \in IdemOperands}
    \cup {UnaryOp(op, a) : op \in {"Not", "Minus"}, a \in IdemOperands}
    \cup {Interpolation(a) : a \in IdemOperands \ {black}}
    \cup {Interpolation(Div(Num(10, "px"), a, FALSE, FALSE)) :
            a \in IdemOperands \ {black}}

IdemBindings == {Num(5, "None"), Num(0, "None"), Num(1000, "px"),
                 Literal(<<"b">>, "Single")}

InitIdem ==
    /\ \E v \in IdemBindings :
          scopes = <<[variables |-> ("x" :> v), mixins |-> <<>>]>>
    /\ \E val \in IdemExprs : last = [op |-> "input", val |-> val, res |-> Null]

\* t holds no Variable, Paren or Interpolation node.
RECURSIVE IsEvaluatedTree(_)
IsEvaluatedTree(t) ==
    CASE t.tag \in {"Variable", "Paren", "Interpolation", "Panic"} -> FALSE
      [] t.tag = "Div" -> IsEvaluatedTree(t.a) /\ IsEvaluatedTree(t.b)
      [] t.tag = "UnaryOp" -> IsEvaluatedTree(t.v)
      [] t.tag = "List" -> \A i \in DOMAIN t.items : IsEvaluatedTree(t.items[i])
      [] OTHER -> TRUE

ValueEvaluate ==
    /\ last.op = "input"
    /\ last' = [last EXCEPT !.op = "evaluate",
                            !.res = Value_evaluate(last.val, scopes, top)]
    /\ UNCHANGED scopes

\* The result of an evaluation is evaluated again.
ValueReevaluate ==
    /\ last.op = "evaluate"
    /\ IsEvaluatedTree(last.res)
    /\ last' = [op |-> "reevaluate", val |-> last.res,
                res |-> Value_evaluate(last.res, scopes, top)]
    /\ UNCHANGED scopes

NextIdem == ValueEvaluate \/ ValueReevaluate

SpecIdem == InitIdem /\ [][NextIdem]_vars

\* C23: a tree that an evaluation returned and that holds no Variable, Paren
\* or Interpolation node evaluates to itself: operands, units, flags and
\* spacing are the same.
C23_EvaluationIdempotent ==
    last.op = "reevaluate" => last.res = last.val


(***************************************************************************)
(* Formatting of lists: css values are drawn as inputs, is_null and the    *)
(* Display of css::Value act on them.                                      *)
(***************************************************************************)
MaxItems == 2

ListAtoms == {Null, Str("a"), Num(1, "None")}

ListInnerItems == {<<>>, <<Null>>, <<Str("a"), Str("b")>>, <<Null, Str("a")>>}

ListInner ==
    {List(items, sep, b) :
        items \in ListInnerItems, sep \in {"Comma", "Space"}, b \in BOOLEAN}

ListElements == ListAtoms \cup ListInner

ListValues ==
    {List(items, sep, b) :
        items \in UNION {[1..n -> ListElements] : n \in 0..MaxItems},
        sep \in {"Comma", "Space"}, b \in BOOLEAN}

InitList ==
    /\ scopes = <<ScopeImpl>>
    /\ \E val \in ListValues, alt \in BOOLEAN :
          last = [op |-> "input", val |-> val, alt |-> alt,
                  null |-> FALSE, res |-> <<>>]

IsNull ==
    /\ last.op = "input"
    /\ last' = [last EXCEPT !.op = "is_null", !.null = css_is_null(last.val)]
    /\ UNCHANGED scopes

FormatList ==
    /\ last.op = "input"
    /\ last' = [last EXCEPT !.op = "fmt", !.res = css_fmt(last.val, last.alt)]
    /\ UNCHANGED scopes

NextList == IsNull \/ FormatList

SpecList == InitList /\ [][NextList]_vars

\* A value that holds nothing: Null, or a list without brackets all of whose
\* elements hold nothing.
RECURSIVE HoldsNothing(_)
HoldsNothing(v) ==
    \/ v.tag = "Null"
    \/ /\ v.tag = "List"
       /\ v.bracketed = FALSE
       /\ \A i \in DOMAIN v.items : HoldsNothing(v.items[i])

\* The list v without its elements that hold nothing.
WithoutNothing(v) ==
    [v EXCEPT !.items = SelectSeq(v.items, LAMBDA x : ~HoldsNothing(x))]

\* C24: is_null holds exactly of Null and of the lists without brackets whose
\* elements are all null, recursively, so never of a bracketed list; and an
\* element that is null adds neither text nor separator to the text of the
\* list that holds it: the list prints as the list without that element, and
\* a list of null elements only prints as nothing but its own brackets.
C24_NullElementsPrintNothing ==
    /\ last.op = "is_null" =>
          /\ last.null = HoldsNothing(last.val)
          /\ last.val.bracketed => ~last.null
    /\ last.op = "fmt" =>
          /\ last.res = css_fmt(WithoutNothing(last.val), last.alt)
          /\ (\A i \in DOMAIN last.val.items : HoldsNothing(last.val.items[i]))
                => last.res = IF last.val.bracketed THEN <<"[", "]">> ELSE <<>>

\* A list with a null list and a literal as elements was formatted, and a
\* bracketed list was tested for null.
C24_Witness ==
    /\ last.op = "fmt"
    /\ Len(last.val.items) = 2
    /\ last.val.items[1] = List(<<Null>>, "Space", FALSE)
    /\ last.val.items[2] = Str("a")
    /\ last.val.sep = "Space"
    /\ last.res = <<"a">>


\* TRUE iff sub occurs in s as a run of consecutive characters.
Contains(s, sub) ==
    \E i \in 1..(Len(s) - Len(sub) + 1) : SubSeq(s, i, i + Len(sub) - 1) = sub

\* The number of characters of s that are c.
CountChar(s, c) == Cardinality({i \in DOMAIN s : s[i] = c})

\* The text of e between parentheses.
Wrapped(e, alt) == <<"(">> \o css_fmt(e, alt) \o <<")">>

\* C28 as stated: whenever a list is formatted, in either style, an element
\* that is a bracketed space-separated list appears between parentheses in
\* the text.
C28_BracketedElementParenthesized ==
    last.op = "fmt" =>
        \A i \in DOMAIN last.val.items :
            LET e == last.val.items[i]
            IN  (e.tag = "List" /\ e.bracketed /\ e.sep = "Space")
                    => Contains(last.res, Wrapped(e, last.alt))

\* The elements of the formatted list that are lists without brackets and
\* are not null.
OpenElements ==
    {i \in DOMAIN last.val.items :
        LET e == last.val.items[i]
        IN  e.tag = "List" /\ ~e.bracketed /\ ~HoldsNothing(e)}

\* C28, amended: when a bracketed space-separated list is formatted, in
\* either style, each element that is a list without brackets and is not
\* null appears between parentheses, and nothing else does; in a list that
\* is not bracketed or is comma-separated no element is parenthesized, and
\* an element that is a bracketed list never is.
C28_OpenElementParenthesized ==
    last.op = "fmt" =>
        IF last.val.bracketed /\ last.val.sep = "Space"
        THEN /\ \A i \in OpenElements :
                    Contains(last.res, Wrapped(last.val.items[i], last.alt))
             /\ CountChar(last.res, "(") = Cardinality(OpenElements)
        ELSE CountChar(last.res, "(") = 0

\* The bracketed space-separated list [(a b) a] was formatted.
C28_Witness ==
    /\ last.op = "fmt"
    /\ last.val = List(<<List(<<Str("a"), Str("b")>>, "Space", FALSE),
                         Str("a")>>, "Space", TRUE)
    /\ last.res = <<"[", "(", "a", " ", "b", ")", " ", "a", "]">>


\* The number an operand of a chain stands for: the binding of $x for the
\* variable, the literal itself otherwise.
OperandValue(e) ==
    IF e.tag = "Variable" THEN get(scopes, top, e.name) ELSE e

\* TRUE iff val is a chain a/b/c of literal numbers and variables with at
\* least one variable, over unitless numbers, with non-zero divisors.
IsVariableChain(val) ==
    /\ val.tag = "Div" /\ val.a.tag = "Div"
    /\ LET ops == <<val.a.a, val.a.b, val.b>>
       IN  /\ \A i \in 1..3 : ops[i].tag \in {"Numeric", "Variable"}
           /\ \E i \in 1..3 : ops[i].tag = "Variable"
           /\ \A i \in 1..3 : OperandValue(ops[i]).u = "None"
           /\ \A i \in 2..3 : ~is_zero(OperandValue(ops[i]).v)

\* C25: outside an arithmetic context a chain a/b/c over unitless numbers
\* with non-zero divisors, at least one operand a variable bound to a number
\* and the others literal numbers, evaluates to the calculated Number
\* (a / b) / c, whichever positions the variables are in.
C25_VariableChainReduces ==
    (last.op = "do_evaluate" /\ ~last.arith /\ IsVariableChain(last.val)) =>
        last.res = Numeric(RatDiv(RatDiv(OperandValue(last.val.a.a).v,
                                         OperandValue(last.val.a.b).v),
                                  OperandValue(last.val.b).v),
                           "None", FALSE, TRUE)

\* 15 / 3 / $x with $x: 5 was evaluated outside an arithmetic context and
\* gave 1.
C25_Witness ==
    /\ last.op = "do_evaluate" /\ ~last.arith
    /\ last.val = Div(Div(Num(15, "None"), Num(3, "None"), TRUE, TRUE),
                      Variable("x"), TRUE, TRUE)
    /\ get(scopes, top, "x") = Num(5, "None")
    /\ last.res = Numeric(from_integer(1), "None", FALSE, TRUE)


\* C26 as stated: whenever the arithmetic flag is on, a Div that evaluation
\* leaves symbolic has no space before and none after its slash.
C26_ArithmeticDivUnspaced ==
    (last.op = "do_evaluate" /\ last.arith /\ last.val.tag = "Div"
        /\ last.res.tag = "Div")
    => (~last.res.s1 /\ ~last.res.s2)

\* C26, amended: when the arithmetic flag is on, a Div that evaluation leaves
\* symbolic keeps the spacing of the source if both operands are Numbers and
\* the divisor is zero, and has no space before and none after its slash in
\* every other case.
C26_ArithmeticDivUnspacedUnlessZero ==
    (last.op = "do_evaluate" /\ last.arith /\ last.val.tag = "Div"
        /\ last.res.tag = "Div")
    => IF last.res.a.tag = "Numeric" /\ last.res.b.tag = "Numeric"
          /\ is_zero(last.res.b.v)
       THEN last.res.s1 = last.val.s1 /\ last.res.s2 = last.val.s2
       ELSE ~last.res.s1 /\ ~last.res.s2

\* A division written with spaces that is not one of numbers by zero was
\* evaluated with the arithmetic flag on and stayed symbolic, without spaces.
C26_Witness ==
    /\ last.op = "do_evaluate" /\ last.arith
    /\ last.val.tag = "Div" /\ last.val.s1 /\ last.val.s2
    /\ last.res.tag = "Div" /\ ~last.res.s1 /\ ~last.res.s2
    /\ ~(last.res.b.tag = "Numeric" /\ is_zero(last.res.b.v))


(***************************************************************************)
(* Interpolation: Interpolation(a) is evaluated by sass::Value in a scope  *)
(* that binds $x.                                                          *)
(***************************************************************************)
InterpOperands ==
    {Null, True, Str("a"), Literal(<<"a", "\\", "1">>, "Double"),
     Literal(<<"'">>, "Single"), Num(15, "None"), Num(0, "None"),
     Num(10, "px"), black,
     Color(from_integer(16), from_integer(32), from_integer(255),
           RatNew(1, 2), None),
     Variable("x")}

InterpExprs ==
    InterpOperands
    \cup {Div(a, b, s, s) : a \in InterpOperands, b \in InterpOperands,
                            s \in BOOLEAN}
    \cup {List(<<a, b>>, sep, FALSE) : a \in InterpOperands,
                                       b \in InterpOperands,
                                       sep \in {"Comma", "Space"}}
    \cup {Paren(a) : a \in InterpOperands}

InterpBindings == {Num(5, "None"), Num(0, "None"), Literal(<<"b">>, "Double")}

InitInterp ==
    /\ \E v \in InterpBindings :
          scopes = <<[variables |-> ("x" :> v), mixins |-> <<>>]>>
    /\ \E a \in InterpExprs :
          last = [op |-> "input", val |-> Interpolation(a), res |-> Null]

\* Value::evaluate of sass::Value on the interpolation.
Interpolate ==
    /\ last.op = "input"
    /\ last' = [last EXCEPT !.op = "sass",
                            !.res = evaluate(last.val, scopes, top)]
    /\ UNCHANGED scopes

NextInterp == Interpolate

SpecInterp == InitInterp /\ [][NextInterp]_vars

\* C27: the result of evaluating Interpolation(a), for every expression a
\* and every scope, is Null or a Literal with Quotes::None.
C27_InterpolationIsUnquotedLiteral ==
    last.op = "sass" =>
        \/ last.res = Null
        \/ last.res.tag = "Literal" /\ last.res.q = "None"


(***************************************************************************)
(* Backslash escapes of the parser: escaped_char of parser/strings.rs on   *)
(* inputs of ASCII characters.  A character is its code point.             *)
(***************************************************************************)
MinHexDigits == 1
MaxHexDigits == 6

\* one_of("0123456789ABCDEFabcdef").
HexDigits == <<"0", "1", "2", "3", "4", "5", "6", "7", "8", "9",
               "A", "B", "C", "D", "E", "F", "a", "b", "c", "d", "e", "f">>

\* The value of one hex digit, as u32::from_str_radix(_, 16) reads it.
HexDigitValue(c) ==
    LET i == IndexOf(c, HexDigits) IN IF i <= 16 THEN i - 1 ELSE i - 7

\* u32::from_str_radix(s, 16) of a run of hex digits; the run has at most
\* MaxHexDigits digits, so the value is below 2^24 and fits the u32.
RECURSIVE from_str_radix16(_)
from_str_radix16(s) ==
    IF s = <<>> THEN 0
    ELSE from_str_radix16(SubSeq(s, 1, Len(s) - 1)) * 16
         + HexDigitValue(s[Len(s)])

\* std::char::from_u32: a char for every scalar value, None for the
\* surrogates and for the values above U+10FFFF.
from_u32(n) ==
    IF n > 1114111 \/ (n >= 55296 /\ n <= 57343) THEN None ELSE Some(n)

\* The code points of the characters the inputs are written with.
AsciiChars == <<" ", "0", "1", "8", "F", "\\", "d", "z">>
AsciiCodes == <<32, 48, 49, 56, 70, 92, 100, 122>>
ord(c) == AsciiCodes[IndexOf(c, AsciiChars)]

\* An IResult: the character parsed and the input left, or an error.
Parsed(c, rest) == [tag |-> "Ok", c |-> c, rest |-> rest]
ParseError == [tag |-> "Err"]

\* The number of hex digits many_m_n(1, 6, one_of(..)) takes from s.
RECURSIVE HexRun(_, _)
HexRun(s, max) ==
    IF max = 0 \/ s = <<>> \/ ~InSeq(s[1], HexDigits) THEN 0
    ELSE 1 + HexRun(Tail(s), max - 1)

\* take_char on ASCII input: the first character.
take_char(s) == IF s = <<>> THEN ParseError ELSE Parsed(ord(s[1]), Tail(s))

\* escaped_char.
escaped_char(input) ==
    IF input = <<>> \/ input[1] # "\\" THEN ParseError
    ELSE LET s == Tail(input)
             n == HexRun(s, MaxHexDigits)
             after == SubSeq(s, n + 1, Len(s))
         IN  IF s # <<>> /\ s[1] = "\\" THEN Parsed(ord("\\"), Tail(s))
             ELSE IF n >= MinHexDigits
             THEN LET c == from_u32(from_str_radix16(SubSeq(s, 1, n)))
                  IN  IF c = None THEN Panic
                      ELSE Parsed(c.val,
                                  IF after # <<>> /\ after[1] = " "
                                  THEN Tail(after) ELSE after)
             ELSE take_char(s)

EscapeHexChars == {"0", "1", "d", "8", "F"}

\* What follows the backslash: hex digits, or a character that is none.
EscapeBodies ==
    UNION {[1..n -> EscapeHexChars] : n \in MinHexDigits..MaxHexDigits}
    \cup {<<>>, <<"\\">>, <<"z">>}

\* What follows the escape.
EscapeTails == {<<>>, <<" ">>, <<" ", " ">>, <<"z">>, <<"0">>}

InitEscape ==
    /\ scopes = <<ScopeImpl>>
    /\ \E body \in EscapeBodies, tail \in EscapeTails :
          last = [op |-> "input", input |-> <<"\\">> \o body \o tail,
                  res |-> ParseError]

EscapedChar ==
    /\ last.op = "input"
    /\ last' = [last EXCEPT !.op = "escaped_char",
                            !.res = escaped_char(last.input)]
    /\ UNCHANGED scopes

NextEscape == EscapedChar

SpecEscape == InitEscape /\ [][NextEscape]_vars

\* C29: on a backslash followed by 1 to 6 hex digits, with or without one
\* space after them, escaped_char returns a character and the input after
\* the digits and that space, whatever value the digits denote.
C29_HexEscapeNeverFails ==
    (/\ last.op = "escaped_char"
     /\ HexRun(Tail(last.input), MaxHexDigits) >= MinHexDigits)
    => LET n == HexRun(Tail(last.input), MaxHexDigits)
           after == SubSeq(last.input, n + 2, Len(last.input))
       IN  /\ last.res.tag = "Ok"
           /\ last.res.rest = IF after # <<>> /\ after[1] = " "
                              THEN Tail(after) ELSE after


\* C30: a define with the global flag, called on a child scope that holds a
\* binding of the name, leaves what get returns on that child as it was, the
\* child's own binding, while get on the root returns the value the define
\* stored (val as define evaluates it): the write to the root is not seen
\* through the scope that shadows the name.
C30_GlobalDefineBehindShadow ==
    [][ (/\ last'.op = "define" /\ last'.global
         /\ top >= 2
         /\ last'.name \in DOMAIN scopes[top].variables)
        => /\ get(scopes', top, last'.name) = scopes[top].variables[last'.name]
           /\ get(scopes', top, last'.name) = get(scopes, top, last'.name)
           /\ get(scopes', 1, last'.name)
                 = ScopeImpl_do_evaluate(scopes, 1, last'.val, TRUE)
      ]_vars

\* A global define was called on a child that binds the name itself: the
\* root holds the value just defined and the child still reads another one.
C30_Witness ==
    /\ last.op = "define" /\ last.global
    /\ top >= 2
    /\ last.name \in DOMAIN scopes[top].variables
    /\ last.name \in DOMAIN scopes[1].variables
    /\ last.val = Str("a")
    /\ get(scopes, 1, last.name) = Str("a")
    /\ get(scopes, top, last.name) # Str("a")

============================================================================
